---- MODULE Spec2Model ----
(***************************************************************************)
(* Model of the Confluence MCP server core:                                *)
(*   - the universal (federated) search controller, which fans one query   *)
(*     out into one executor call per enabled category and joins them,     *)
(*   - the pages service `list`, with its hybrid title fallback            *)
(*     (tryPartialTitleSearch).                                            *)
(* Strings are sequences of atoms: a character of caller-supplied text is  *)
(* one atom, a fragment of a template literal is one atom.  An optional    *)
(* value is a set with at most one element (Undefined is the empty set).   *)
(***************************************************************************)
EXTENDS Integers, Sequences, FiniteSets, TLC

(***************************************************************************)
(* Optional values                                                         *)
(***************************************************************************)
Undefined == {}

Some(v) == {v}

IsDefined(o) == o /= {}

Get(o) == CHOOSE v \in o : TRUE

(***************************************************************************)
(* Strings                                                                 *)
(***************************************************************************)
IsWhitespace(ch) == ch \in {" ", "\n", "\t"}

RECURSIVE TrimStart(_)
TrimStart(s) ==
    IF s = <<>> THEN s
    ELSE IF IsWhitespace(Head(s)) THEN TrimStart(Tail(s)) ELSE s

RECURSIVE TrimEnd(_)
TrimEnd(s) ==
    IF s = <<>> THEN s
    ELSE IF IsWhitespace(s[Len(s)]) THEN TrimEnd(SubSeq(s, 1, Len(s) - 1))
    ELSE s

\* String.prototype.trim
trim(s) == TrimEnd(TrimStart(s))

RECURSIVE Concat(_)
\* concatenation of a sequence of strings
Concat(ss) == IF ss = <<>> THEN <<>> ELSE Head(ss) \o Concat(Tail(ss))

RECURSIVE join(_, _)
\* Array.prototype.join
join(ss, sep) ==
    IF ss = <<>> THEN <<>>
    ELSE IF Len(ss) = 1 THEN ss[1]
    ELSE ss[1] \o sep \o join(Tail(ss), sep)

\* an escape that leaves the backslash alone
EscapeQuoteOnly(ch) ==
    CASE ch = "\"" -> <<"\\", "\"">>
      [] ch = "\n" -> <<"\\", "n">>
      [] ch = "\t" -> <<"\\", "t">>
      [] OTHER -> <<ch>>

\* the escape JSON.stringify applies to one character of a string
JsonEscapeChar(ch) ==
    CASE ch = "\"" -> <<"\\", "\"">>
      [] ch = "\\" -> <<"\\", "\\">>
      [] ch = "\n" -> <<"\\", "n">>
      [] ch = "\t" -> <<"\\", "t">>
      [] OTHER -> <<ch>>

\* an escaper that also trims its argument
escapeTrimmed(value) ==
    Concat([i \in 1..Len(trim(value)) |-> JsonEscapeChar(trim(value)[i])])

\* JSON.stringify(value).slice(1, -1)
escapeCqlValue(value) ==
    Concat([i \in 1..Len(value) |-> JsonEscapeChar(value[i])])

Min(a, b) == IF a < b THEN a ELSE b

\* a maximum that returns its first argument
MaxLeft(a, b) == a

Max(a, b) == IF a > b THEN a ELSE b

(***************************************************************************)
(* Universal search controller                                             *)
(***************************************************************************)
\* UniversalSearchSectionKey, in the order the controller lists the types
SectionOrder == <<"spaces", "pages", "blogPosts", "attachments", "comments">>

Sections == {SectionOrder[i] : i \in 1..Len(SectionOrder)}

SECTION_TO_CQL_TYPE ==
    [spaces |-> "space", pages |-> "page", blogPosts |-> "blogpost",
     attachments |-> "attachment", comments |-> "comment"]

DEFAULT_LIMIT_PER_TYPE == 5

\* a toggle that is enabled only when it is set to true
IncludeOnlyWhenSet(flag) == IF IsDefined(flag) THEN Get(flag) ELSE FALSE

\* flag !== undefined ? flag : true
IncludeOrDefault(flag) == IF IsDefined(flag) THEN Get(flag) ELSE TRUE

NonEmpty(s) == Len(s) > 0

\* a normalisation that trims the labels but keeps the blank ones
normalizeOptionsKeepBlank(options) ==
    LET trimmedQuery ==
            IF IsDefined(options.query) THEN trim(Get(options.query)) ELSE <<>>
        trimmedKey ==
            IF IsDefined(options.spaceKey) THEN trim(Get(options.spaceKey))
            ELSE <<>>
        labels == Get(options.labels)
    IN  [query |-> trimmedQuery,
         spaceKey |-> IF trimmedKey /= <<>> THEN Some(trimmedKey) ELSE Undefined,
         labels |->
            IF IsDefined(options.labels)
            THEN Some([i \in 1..Len(labels) |-> trim(labels[i])])
            ELSE Undefined,
         includeSpaces |-> IncludeOrDefault(options.includeSpaces),
         includePages |-> IncludeOrDefault(options.includePages),
         includeBlogPosts |-> IncludeOrDefault(options.includeBlogPosts),
         includeAttachments |-> IncludeOrDefault(options.includeAttachments),
         includeComments |-> IncludeOrDefault(options.includeComments),
         limitPerType |->
            IF IsDefined(options.limitPerType)
            THEN Min(Max(Get(options.limitPerType), 1), 25)
            ELSE DEFAULT_LIMIT_PER_TYPE]

normalizeOptions(options) ==
    LET trimmedQuery ==
            IF IsDefined(options.query) THEN trim(Get(options.query)) ELSE <<>>
        trimmedKey ==
            IF IsDefined(options.spaceKey) THEN trim(Get(options.spaceKey))
            ELSE <<>>
        labels == Get(options.labels)
    IN  [query |-> trimmedQuery,
         spaceKey |-> IF trimmedKey /= <<>> THEN Some(trimmedKey) ELSE Undefined,
         labels |->
            IF IsDefined(options.labels)
            THEN Some(SelectSeq([i \in 1..Len(labels) |-> trim(labels[i])],
                                NonEmpty))
            ELSE Undefined,
         includeSpaces |-> IncludeOrDefault(options.includeSpaces),
         includePages |-> IncludeOrDefault(options.includePages),
         includeBlogPosts |-> IncludeOrDefault(options.includeBlogPosts),
         includeAttachments |-> IncludeOrDefault(options.includeAttachments),
         includeComments |-> IncludeOrDefault(options.includeComments),
         limitPerType |->
            IF IsDefined(options.limitPerType)
            THEN Min(Max(Get(options.limitPerType), 1), 25)
            ELSE DEFAULT_LIMIT_PER_TYPE]

IsIncludedPair(pair) == pair[2]

\* the [key, include] pairs filtered on include and mapped to the key
includedTypes(normalized) ==
    LET pairs == <<
            <<"spaces", normalized.includeSpaces>>,
            <<"pages", normalized.includePages>>,
            <<"blogPosts", normalized.includeBlogPosts>>,
            <<"attachments", normalized.includeAttachments>>,
            <<"comments", normalized.includeComments>> >>
        kept == SelectSeq(pairs, IsIncludedPair)
    IN  [i \in 1..Len(kept) |-> kept[i][1]]

\* a query builder that puts the text clause in front of the type clause
buildTypeSpecificCqlTextFirst(type, options) ==
    LET typeClause == <<"type = ", SECTION_TO_CQL_TYPE[type]>>
        textClause ==
            <<"text ~ ", "\"">> \o escapeCqlValue(options.query) \o <<"\"">>
        spaceClauses ==
            IF type /= "spaces" /\ IsDefined(options.spaceKey)
            THEN << <<"space = ", "\"">>
                    \o escapeCqlValue(Get(options.spaceKey)) \o <<"\"">> >>
            ELSE <<>>
        labels == Get(options.labels)
        labelClauses ==
            IF IsDefined(options.labels) /\ type \in {"pages", "blogPosts"}
            THEN [i \in 1..Len(labels) |->
                    <<"label = ", "\"">> \o escapeCqlValue(labels[i])
                        \o <<"\"">>]
            ELSE <<>>
    IN  join(<<textClause, typeClause>> \o spaceClauses \o labelClauses,
             <<" AND ">>)

buildTypeSpecificCql(type, options) ==
    LET typeClause == <<"type = ", SECTION_TO_CQL_TYPE[type]>>
        textClause ==
            <<"text ~ ", "\"">> \o escapeCqlValue(options.query) \o <<"\"">>
        spaceClauses ==
            IF type /= "spaces" /\ IsDefined(options.spaceKey)
            THEN << <<"space = ", "\"">>
                    \o escapeCqlValue(Get(options.spaceKey)) \o <<"\"">> >>
            ELSE <<>>
        labels == Get(options.labels)
        labelClauses ==
            IF IsDefined(options.labels) /\ type \in {"pages", "blogPosts"}
            THEN [i \in 1..Len(labels) |->
                    <<"label = ", "\"">> \o escapeCqlValue(labels[i])
                        \o <<"\"">>]
            ELSE <<>>
    IN  join(<<typeClause, textClause>> \o spaceClauses \o labelClauses,
             <<" AND ">>)

\* the SearchParams executeSearchForType hands to the search service
SearchParamsForType(type, options) ==
    [cql |-> buildTypeSpecificCql(type, options),
     limit |-> Some(options.limitPerType),
     excerpt |-> Some("highlight"),
     includeArchivedSpaces |-> Some(FALSE)]

\* response.results || []
ResultsOrEmpty(response) ==
    IF IsDefined(response.results) THEN Get(response.results) ELSE <<>>

\* the sections the formatter renders, one per included type in input order
formatUniversalSearchResults(input) ==
    LET sections ==
            [i \in 1..Len(input.includedTypes) |->
                [type |-> input.includedTypes[i],
                 results |-> input.results[input.includedTypes[i]]]]
    IN  [heading |-> "Confluence Universal Search",
         query |-> input.query,
         limitPerType |-> input.limitPerType,
         includedTypes |-> input.includedTypes,
         spaceFilter |-> input.spaceKey,
         labelFilter |-> input.labels,
         sections |-> sections,
         noMatches |-> \A i \in 1..Len(sections) : sections[i].results = <<>>]

\* a map that holds only the keys of the resolved calls
ResultsOfResolvedOnly(resolvedResults) ==
    [t \in {resolvedResults[i][1] : i \in 1..Len(resolvedResults)} |->
        LET i == CHOOSE j \in 1..Len(resolvedResults) :
                    resolvedResults[j][1] = t
        IN  resolvedResults[i][2]]

\* resultsByType: the five-key template, then one assignment per resolved call
BuildResultsByType(resolvedResults) ==
    [t \in Sections |->
        IF \E i \in 1..Len(resolvedResults) : resolvedResults[i][1] = t
        THEN LET last == CHOOSE i \in 1..Len(resolvedResults) :
                            /\ resolvedResults[i][1] = t
                            /\ \A j \in (i + 1)..Len(resolvedResults) :
                                    resolvedResults[j][1] /= t
             IN  resolvedResults[last][2]
        ELSE <<>>]

\* state of Promise.allSettled-like joining: waits for all, never rejects
PromiseAllSettled(types, ps) ==
    IF \E i \in 1..Len(types) : ps[types[i]].state = "pending"
    THEN "pending" ELSE "fulfilled"

\* state of a first-to-finish combinator
PromiseRace(types, ps) ==
    IF \E i \in 1..Len(types) : ps[types[i]].state = "rejected"
    THEN "rejected"
    ELSE IF \E i \in 1..Len(types) : ps[types[i]].state = "fulfilled"
    THEN "fulfilled" ELSE "pending"

\* state of Promise.all(searchPromises)
PromiseAll(types, ps) ==
    IF \E i \in 1..Len(types) : ps[types[i]].state = "rejected"
    THEN "rejected"
    ELSE IF \A i \in 1..Len(types) : ps[types[i]].state = "fulfilled"
    THEN "fulfilled" ELSE "pending"

\* the value of Promise.all: one [type, results] pair per promise, in the
\* order of the promises, whatever the order they completed in
ResolvedResults(types, ps) ==
    [i \in 1..Len(types) |-> <<types[i], ResultsOrEmpty(ps[types[i]])>>]

\* a formatter input that lists the type whose call completed first before
\* the other types
FormatterInputFirstCompletedFirst(normalized, types, first, resultsByType) ==
    [query |-> normalized.query,
     spaceKey |-> normalized.spaceKey,
     labels |-> normalized.labels,
     limitPerType |-> normalized.limitPerType,
     includedTypes |->
        <<Get(first)>> \o SelectSeq(types, LAMBDA t : t /= Get(first)),
     results |-> resultsByType]

\* the argument of formatUniversalSearchResults; `first` is the type whose
\* call completed first, which the controller does not consult
FormatterInput(normalized, types, first, resultsByType) ==
    [query |-> normalized.query,
     spaceKey |-> normalized.spaceKey,
     labels |-> normalized.labels,
     limitPerType |-> normalized.limitPerType,
     includedTypes |-> types,
     results |-> resultsByType]

StatusHint ==
    <<"Universal search failed (Status 400 - Bad Request): ">>

CqlHint ==
    <<". This may indicate invalid CQL generated from the provided filters. Double-check the query text and filters.">>

\* a catch block that rethrows the error as it came
searchCatchKeepsMessage(error) ==
    [statusCode |-> error.statusCode, message |-> error.message]

\* the catch block of search: the message is enriched on status 400
searchCatch(error) ==
    [statusCode |-> error.statusCode,
     message |->
        IF error.statusCode = Some(400)
        THEN StatusHint \o error.message \o CqlHint
        ELSE error.message]

(***************************************************************************)
(* Inputs of the universal search                                          *)
(***************************************************************************)
\* most toggles a caller sets to true explicitly
MaxExplicitTrue == 1

\* longest result list the executor returns for one call
MaxResults == 1

ToggleInputs == {Undefined, Some(TRUE), Some(FALSE)}

QueryInputs == {Undefined, Some(<<>>), Some(<<" ">>), Some(<<" ", "a">>)}

ToggleNames ==
    <<"includeSpaces", "includePages", "includeBlogPosts",
      "includeAttachments", "includeComments">>

OptionInputs ==
    {o \in [query : QueryInputs,
            spaceKey : {Undefined},
            labels : {Undefined},
            includeSpaces : ToggleInputs,
            includePages : ToggleInputs,
            includeBlogPosts : ToggleInputs,
            includeAttachments : ToggleInputs,
            includeComments : ToggleInputs,
            limitPerType : {Undefined}] :
        Cardinality({i \in 1..Len(ToggleNames) :
                        o[ToggleNames[i]] = Some(TRUE)}) <= MaxExplicitTrue}

\* a search hit as the executor returns it
SearchHit == [id |-> "1"]

RECURSIVE SeqsUpTo(_, _)
SeqsUpTo(S, n) ==
    IF n = 0 THEN {<<>>}
    ELSE LET shorter == SeqsUpTo(S, n - 1)
         IN  shorter \cup {Append(s, x) : s \in shorter, x \in S}

\* the `results` field of an executor response (it may be absent)
ResultInputs ==
    {Undefined} \cup {Some(s) : s \in SeqsUpTo({SearchHit}, MaxResults)}

\* the errors the executor raises: a rejected query and a transport failure
ErrorInputs ==
    {[statusCode |-> Some(400), message |-> <<"Bad Request">>],
     [statusCode |-> Undefined, message |-> <<"network down">>]}

NoPromise == [state |-> "none", results |-> Undefined, error |-> Undefined]

PendingPromise ==
    [state |-> "pending", results |-> Undefined, error |-> Undefined]

Fulfilled(results) ==
    [state |-> "fulfilled", results |-> results, error |-> Undefined]

Rejected(error) ==
    [state |-> "rejected", results |-> Undefined, error |-> Some(error)]

EmptyQueryAdvisory ==
    [content |-> "Please provide a search query"]

NoTypesAdvisory ==
    [content |-> "No content types selected"]

(***************************************************************************)
(* Pages service: list and its hybrid title fallback                       *)
(***************************************************************************)
\* a string or an array is truthy when it is present and not empty
Truthy(o) == IF IsDefined(o) THEN Get(o) /= <<>> ELSE FALSE

\* a number is truthy when it is present and not zero
TruthyNumber(o) == IF IsDefined(o) THEN Get(o) /= 0 ELSE FALSE

\* the query parameters list sets on the primary request
PrimaryRequest(params) ==
    [spaceId |-> IF Truthy(params.spaceId) THEN params.spaceId ELSE Undefined,
     title |-> IF Truthy(params.title) THEN params.title ELSE Undefined,
     status |-> IF Truthy(params.status) THEN params.status ELSE Undefined,
     parentId |-> IF Truthy(params.parentId) THEN params.parentId
                  ELSE Undefined,
     cursor |-> IF Truthy(params.cursor) THEN params.cursor ELSE Undefined,
     limit |-> IF TruthyNumber(params.limit) THEN params.limit ELSE Undefined]

\* a fallback that is also tried on a later page of the sequence
FallbackOnAnyPage(params, validatedData) ==
    /\ Truthy(params.title)
    /\ Len(validatedData.results) = 0

\* params.title && validatedData.results.length === 0 && !params.cursor
FallbackPermitted(params, validatedData) ==
    /\ Truthy(params.title)
    /\ Len(validatedData.results) = 0
    /\ ~Truthy(params.cursor)

\* the title clause of the fallback query
TitleClauses(params) ==
    IF Truthy(params.title)
    THEN << <<"title ~ ", "\"">> \o Get(params.title) \o <<"*", "\"">> >>
    ELSE <<>>

\* a space group that names the first looked-up space only
SpaceClausesFirstOnly(spacesResponse) ==
    IF Len(spacesResponse.results) > 0
    THEN << <<"(", "space = ", "\"">> \o spacesResponse.results[1].key
                \o <<"\"", ")">> >>
    ELSE <<>>

\* the parenthesized space group built from the looked-up spaces
SpaceClauses(spacesResponse) ==
    IF Len(spacesResponse.results) > 0
    THEN LET spaceKeys == [i \in 1..Len(spacesResponse.results) |->
                                spacesResponse.results[i].key]
             spaceConditions ==
                join([i \in 1..Len(spaceKeys) |->
                        <<"space = ", "\"">> \o spaceKeys[i] \o <<"\"">>],
                     <<" OR ">>)
         IN  << <<"(">> \o spaceConditions \o <<")">> >>
    ELSE <<>>

TypeClause == <<"type = ", "\"", "page", "\"">>

\* the SearchParams of the fallback search
FallbackSearchParams(params, cqlParts) ==
    [cql |-> join(Append(cqlParts, TypeClause), <<" AND ">>),
     limit |-> IF TruthyNumber(params.limit) THEN params.limit ELSE Some(25),
     excerpt |-> Undefined,
     includeArchivedSpaces |-> Undefined]

\* the arguments of the space lookup
SpaceLookupParams(params) == [ids |-> Get(params.spaceId), limit |-> 100]

\* the value null of a nullable field, distinct from a missing field
Null == Some(<<"null">>)

\* a filter that keeps every hit that has an id
IsHitWithId(result) ==
    IF IsDefined(result.content)
    THEN Truthy(Get(result.content).id)
    ELSE FALSE

\* the filter of transformSearchResultsToPagesFormat
IsPageHit(result) ==
    IF IsDefined(result.content)
    THEN /\ Get(result.content).type = Some("page")
         /\ Truthy(Get(result.content).id)
    ELSE FALSE

\* a || b on optional strings, with a last default
FirstTruthy(a, b, default) ==
    IF Truthy(a) THEN Get(a) ELSE IF Truthy(b) THEN Get(b) ELSE default

\* one page-type hit mapped to the record shape of the pages endpoint;
\* "now" stands for new Date().toISOString()
HitToPage(result) ==
    LET content == Get(result.content)
        url == FirstTruthy(result.url, Undefined, <<>>)
        modified == FirstTruthy(result.lastModified, Undefined, <<"now">>)
        space == Get(result.space)
    IN  [id |-> Get(content.id),
         status |-> FirstTruthy(content.status, Undefined, <<"current">>),
         title |-> FirstTruthy(content.title, result.title, <<>>),
         spaceId |->
            IF IsDefined(result.space)
            THEN FirstTruthy(space.id, Undefined, <<>>) ELSE <<>>,
         version |-> [number |-> 1, authorId |-> <<>>, message |-> <<>>,
                      createdAt |-> modified],
         authorId |-> <<>>,
         createdAt |-> modified,
         parentId |-> Null,
         parentType |-> Null,
         position |-> Null,
         links |-> [editui |-> url, webui |-> url, self |-> url,
                    tinyui |-> url]]

transformSearchResultsToPagesFormat(searchResults) ==
    LET pageHits == SelectSeq(searchResults.results, IsPageHit)
    IN  [results |-> [i \in 1..Len(pageHits) |-> HitToPage(pageHits[i])],
         links |-> [next |-> searchResults.links.next,
                    base |-> FirstTruthy(searchResults.links.base, Undefined,
                                         <<>>)]]

\* what tryPartialTitleSearch returns when the search call failed
EmptyPage == [results |-> <<>>, links |-> [next |-> Undefined, base |-> <<>>]]

\* a lookup failure that escapes tryPartialTitleSearch
LookupFailurePropagates(error) == [threw |-> TRUE, error |-> error]

\* the catch around the space lookup: warn and go on without a space clause
LookupFailureHandler(error) == [threw |-> FALSE, error |-> error]

\* a search failure that escapes tryPartialTitleSearch
SearchFailurePropagates(error) ==
    [threw |-> TRUE, error |-> error, value |-> EmptyPage]

\* the catch around the fallback search: log and return an empty page
SearchFailureHandler(error) ==
    [threw |-> FALSE, error |-> error, value |-> EmptyPage]

\* a list that returns whatever the fallback produced
AlwaysPartialResults(validatedData, partialResults) == partialResults

\* the page list returns after the fallback ran
PageAfterFallback(validatedData, partialResults) ==
    IF Len(partialResults.results) > 0 THEN partialResults ELSE validatedData

AuthMissingError ==
    [statusCode |-> Some(401), message |-> <<"ATLASSIAN_SITE_NAME is required">>]

\* createApiError("API response validation failed: ...", 500, zodError)
ValidationError ==
    [statusCode |-> Some(500), message |-> <<"API response validation failed">>]

(***************************************************************************)
(* Inputs of the pages service                                             *)
(***************************************************************************)
\* longest hit list the fallback search returns
MaxHits == 2

TitleInputs == {Undefined, Some(<<>>), Some(<<"B">>), Some(<<"A", "\"">>)}

SpaceIdInputs == {Undefined, Some(<<>>), Some(<<"1">>), Some(<<"1", "2">>)}

CursorInputs == {Undefined, Some(<<>>), Some(<<"c">>)}

LimitInputs == {Undefined, Some(0), Some(10)}

StatusInputs == {Undefined, Some(<<"archived">>)}

ParentIdInputs == {Undefined, Some(<<"7">>)}

ListParamsInputs ==
    [title : TitleInputs, spaceId : SpaceIdInputs, cursor : CursorInputs,
     limit : LimitInputs, status : StatusInputs, parentId : ParentIdInputs]

\* a record of the pages endpoint
PrimaryPageRecord ==
    [id |-> <<"5">>, status |-> <<"current">>, title |-> <<"B">>,
     spaceId |-> <<"1">>,
     version |-> [number |-> 3, authorId |-> <<"u1">>, message |-> <<>>,
                  createdAt |-> <<"2024">>],
     authorId |-> <<"u1">>, createdAt |-> <<"2023">>,
     parentId |-> Null, parentType |-> Null, position |-> Null,
     links |-> [editui |-> <<"/e">>, webui |-> <<"/w">>, self |-> <<"/s">>,
                tinyui |-> <<"/t">>]]

\* the pages the primary endpoint answers with (after schema validation)
PrimaryPageInputs ==
    [results : {<<>>, <<PrimaryPageRecord>>},
     links : [next : {Undefined, Some(<<"pages-next">>)},
              base : {<<"https://site">>}]]

Hit(type, id) ==
    [content |-> Some([type |-> Some(type), id |-> id,
                       title |-> Some(<<"Balance">>), status |-> Undefined]),
     title |-> Some(<<"Balance">>),
     space |-> Some([id |-> Some(<<"1">>)]),
     lastModified |-> Undefined,
     url |-> Some(<<"/x">>)]

HitInputs ==
    {Hit("page", Some(<<"9">>)), Hit("page", Some(<<"6">>)),
     Hit("blogpost", Some(<<"8">>)), Hit("page", Undefined)}

\* the responses of the search service to the fallback query
FallbackResponseInputs ==
    [results : SeqsUpTo(HitInputs, MaxHits),
     links : [next : {Undefined, Some(<<"search-next">>)},
              base : {Undefined}]]

Space(key) == [key |-> key]

\* the responses of the spaces service to the lookup
SpacesResponseInputs ==
    [results : {<<>>, <<Space(<<"DEV">>)>>,
                <<Space(<<"DEV">>), Space(<<"OPS">>)>>}]

(***************************************************************************)
(* Search controller: buildCqlQuery and search                             *)
(***************************************************************************)
\* a title clause that embeds the title as it was typed
TitlePartUnescaped(options) ==
    IF Truthy(options.title)
    THEN << <<"title ~ ", "\"">> \o Get(options.title) \o <<"\"">> >>
    ELSE <<>>

\* if (options.title) cqlParts.push(`title ~ "${escapeCqlValue(title)}"`)
TitlePart(options) ==
    IF Truthy(options.title)
    THEN << <<"title ~ ", "\"">> \o escapeCqlValue(Get(options.title))
            \o <<"\"">> >>
    ELSE <<>>

\* if (options.spaceKey) cqlParts.push(`space = "${escapeCqlValue(key)}"`)
SpacePart(options) ==
    IF Truthy(options.spaceKey)
    THEN << <<"space = ", "\"">> \o escapeCqlValue(Get(options.spaceKey))
            \o <<"\"">> >>
    ELSE <<>>

\* one `label = "<escaped label>"` per element of a non-empty label list
LabelParts(options) ==
    IF Truthy(options.labels)
    THEN LET escapedLabels ==
                [i \in 1..Len(Get(options.labels)) |->
                    escapeCqlValue(Get(options.labels)[i])]
         IN  [i \in 1..Len(escapedLabels) |->
                <<"label = ", "\"">> \o escapedLabels[i] \o <<"\"">>]
    ELSE <<>>

\* if (options.contentType) cqlParts.push(`type = ${options.contentType}`)
ContentTypePart(options) ==
    IF IsDefined(options.contentType)
    THEN << <<"type = ", Get(options.contentType)>> >>
    ELSE <<>>

\* if (options.query) cqlParts.push(`text ~ "${escapeCqlValue(query)}"`)
TextPart(options) ==
    IF Truthy(options.query)
    THEN << <<"text ~ ", "\"">> \o escapeCqlValue(Get(options.query))
            \o <<"\"">> >>
    ELSE <<>>

\* the clauses pushed with the free-text clause first
PartsTextFirst(options) ==
    TextPart(options) \o TitlePart(options) \o SpacePart(options)
        \o LabelParts(options) \o ContentTypePart(options)

\* the local cqlParts of buildCqlQuery once every field was looked at
generatedCqlParts(options) ==
    TitlePart(options) \o SpacePart(options) \o LabelParts(options)
        \o ContentTypePart(options) \o TextPart(options)

\* a raw query that counts as given as soon as it is not empty
RawCqlNotEmpty(options) == Truthy(options.cql)

\* options.cql && options.cql.trim()
RawCqlGiven(options) ==
    IF Truthy(options.cql) THEN trim(Get(options.cql)) /= <<>> ELSE FALSE

\* a combination that appends the raw query without parentheses
buildCqlQueryBareRaw(options) ==
    LET generatedCql == join(generatedCqlParts(options), <<" AND ">>)
    IN  IF RawCqlGiven(options)
        THEN IF generatedCql /= <<>>
             THEN <<"(">> \o generatedCql \o <<") AND ">> \o Get(options.cql)
             ELSE Get(options.cql)
        ELSE generatedCql

buildCqlQuery(options) ==
    LET generatedCql == join(generatedCqlParts(options), <<" AND ">>)
    IN  IF RawCqlGiven(options)
        THEN IF generatedCql /= <<>>
             THEN <<"(">> \o generatedCql \o <<") AND (">>
                    \o Get(options.cql) \o <<")">>
             ELSE Get(options.cql)
        ELSE generatedCql

\* the page size of utils/defaults.util, kept as the name it is imported by
DEFAULT_PAGE_SIZE == "DEFAULT_PAGE_SIZE"

\* applyDefaults(options, { limit: DEFAULT_PAGE_SIZE })
applyDefaults(options) ==
    [options EXCEPT !.limit = IF IsDefined(@) THEN @
                              ELSE Some(DEFAULT_PAGE_SIZE)]

\* !finalCql || finalCql.trim() === ''
NoCriteria(finalCql) == finalCql = <<>> \/ trim(finalCql) = <<>>

NoCriteriaAdvisory ==
    [content |-> "Please provide search criteria"]

\* the SearchParams search hands to the search service
ContentSearchParams(mergedOptions, finalCql) ==
    [cql |-> finalCql,
     limit |-> mergedOptions.limit,
     cursor |-> mergedOptions.cursor,
     excerpt |-> Some("highlight"),
     includeArchivedSpaces |-> Some(FALSE)]

\* the content search returns: the executed query, then the results
ContentOf(finalCql, searchData) ==
    [content |-> "results",
     executedCql |-> finalCql,
     results |-> searchData.results,
     hasMore |-> IsDefined(searchData.next)]

\* the catch block of search: a 400 gets the syntax hint in its message
contentSearchCatch(error) ==
    [statusCode |-> error.statusCode,
     message |->
        IF error.statusCode = Some(400)
        THEN <<"Search failed (Status 400 - Bad Request): ">>
                \o error.message
                \o <<". This may be due to invalid CQL syntax.">>
        ELSE error.message]

(***************************************************************************)
(* Inputs of the search controller and of the escaper                      *)
(***************************************************************************)
\* most labels of one call
MaxLabels == 2

\* longest text handed to escapeCqlValue
MaxTextLen == 3

\* the characters of caller-supplied text: a letter, a blank, the two
\* characters with a meaning inside a quoted literal, two control characters
Characters == {"n", " ", "\"", "\\", "\n", "\t"}

TextInputs == SeqsUpTo(Characters, MaxTextLen)

SearchTitleInputs == {Undefined, Some(<<>>), Some(<<"A", "\"", "B">>)}

SearchSpaceKeyInputs == {Undefined, Some(<<"D", "E", "V">>)}

LabelInputs == {<<"l", "\\">>, <<"m">>}

SearchLabelsInputs ==
    {Undefined} \cup {Some(s) : s \in SeqsUpTo(LabelInputs, MaxLabels)}

\* the content types the tool accepts: page and blogpost
ContentTypeInputs == {Undefined, Some("page"), Some("blogpost")}

SearchQueryInputs == {Undefined, Some(<<>>), Some(<<"q", "\n">>)}

RawCqlInputs ==
    {Undefined, Some(<<>>), Some(<<" ", "\t">>),
     Some(<<" ", "x", " ", "O", "R", " ", "y">>)}

SearchToolArgsInputs ==
    [title : SearchTitleInputs,
     spaceKey : SearchSpaceKeyInputs,
     labels : SearchLabelsInputs,
     contentType : ContentTypeInputs,
     query : SearchQueryInputs,
     cql : RawCqlInputs,
     limit : {Undefined, Some("10")},
     cursor : {Undefined}]

\* the response of the search service to the one call of search
SearchDataInputs ==
    [results : SeqsUpTo({SearchHit}, MaxResults),
     next : {Undefined, Some(<<"c">>)}]

\* universal search called with filters: queries, space keys and labels
\* that need trimming and escaping, every combination of switched-off types
FilterQueryInputs ==
    {Some(<<" ">>), Some(<<"q">>), Some(<<" ", "a", "\"", " ">>)}

FilterSpaceKeyInputs == {Undefined, Some(<<" ">>), Some(<<" ", "S", "\"">>)}

FilterLabelInputs == {<<" ">>, <<"l", "\"">>, <<" ", "m">>}

FilterLabelsInputs ==
    {Undefined} \cup {Some(s) : s \in SeqsUpTo(FilterLabelInputs, MaxLabels)}

FilterOptionInputs ==
    [query : FilterQueryInputs,
     spaceKey : FilterSpaceKeyInputs,
     labels : FilterLabelsInputs,
     includeSpaces : {Undefined, Some(FALSE)},
     includePages : {Undefined, Some(FALSE)},
     includeBlogPosts : {Undefined, Some(FALSE)},
     includeAttachments : {Undefined, Some(FALSE)},
     includeComments : {Undefined, Some(FALSE)},
     limitPerType : {Undefined}]

\* the failures of the executor told apart by status: a rejected query
\* (400), another client error (404) and a failure without a status
StatusErrorInputs ==
    ErrorInputs \cup {[statusCode |-> Some(404), message |-> <<"Not Found">>]}

\* universal searches of at most three categories
ErrorOptionInputs ==
    [query : {Some(<<"a">>)},
     spaceKey : {Undefined},
     labels : {Undefined},
     includeSpaces : {Undefined, Some(FALSE)},
     includePages : {Undefined, Some(FALSE)},
     includeBlogPosts : {Undefined, Some(FALSE)},
     includeAttachments : {Some(FALSE)},
     includeComments : {Some(FALSE)},
     limitPerType : {Undefined}]

\* searches by free text, by raw query or by both
ErrorToolArgsInputs ==
    {o \in SearchToolArgsInputs :
        /\ o.title = Undefined
        /\ o.spaceKey = Undefined
        /\ o.labels = Undefined
        /\ o.contentType = Undefined}

\* longest result list the executor returns when the limit is looked at
MaxLimitResults == 3

\* the limits a caller passes: below, inside and above the range
LimitPerTypeInputs ==
    {Undefined} \cup {Some(n) : n \in {0 - 3, 0, 1, 2, 25, 26, 40}}

\* universal searches of the pages, or of the spaces and the pages
LimitOptionInputs ==
    [query : {Some(<<"a">>)},
     spaceKey : {Undefined},
     labels : {Undefined},
     includeSpaces : {Undefined, Some(FALSE)},
     includePages : {Undefined},
     includeBlogPosts : {Some(FALSE)},
     includeAttachments : {Some(FALSE)},
     includeComments : {Some(FALSE)},
     limitPerType : LimitPerTypeInputs]

\* result lists of the executor, some longer than the limit of the call
LimitResultInputs ==
    {Undefined} \cup {Some(s) : s \in SeqsUpTo({SearchHit}, MaxLimitResults)}

(***************************************************************************)
(* CLI command search-all                                                  *)
(***************************************************************************)
IsDigit(ch) == ch \in {"0", "1", "2", "3", "4", "5", "6", "7", "8", "9"}

DigitValue(ch) ==
    CASE ch = "0" -> 0 [] ch = "1" -> 1 [] ch = "2" -> 2 [] ch = "3" -> 3
      [] ch = "4" -> 4 [] ch = "5" -> 5 [] ch = "6" -> 6 [] ch = "7" -> 7
      [] ch = "8" -> 8 [] ch = "9" -> 9

RECURSIVE LeadingDigits(_)
\* the longest prefix of s made of decimal digits
LeadingDigits(s) ==
    IF s = <<>> THEN <<>>
    ELSE IF IsDigit(Head(s)) THEN <<Head(s)>> \o LeadingDigits(Tail(s))
    ELSE <<>>

RECURSIVE DecimalValue(_)
\* the number a sequence of decimal digits denotes
DecimalValue(digits) ==
    IF digits = <<>> THEN 0
    ELSE 10 * DecimalValue(SubSeq(digits, 1, Len(digits) - 1))
            + DigitValue(digits[Len(digits)])

\* parseInt(text, 10): leading whitespace is skipped, a sign is read, then
\* the longest run of digits; what follows is ignored; NaN (Undefined) when
\* there is no digit
parseInt(text) ==
    LET s == TrimStart(text)
        negative == s /= <<>> /\ Head(s) = "-"
        unsigned == IF s /= <<>> /\ Head(s) \in {"-", "+"} THEN Tail(s) ELSE s
        digits == LeadingDigits(unsigned)
    IN  IF digits = <<>> THEN Undefined
        ELSE Some(IF negative THEN 0 - DecimalValue(digits)
                  ELSE DecimalValue(digits))

NotPositiveMessage ==
    "Invalid --limit-per-type value: Must be a positive integer."

\* the error the action throws for the parsed limit, if any
LimitPerTypeError(limitPerType) ==
    IF limitPerType = Undefined THEN Some(NotPositiveMessage)
    ELSE IF Get(limitPerType) <= 0 THEN Some(NotPositiveMessage)
    ELSE IF Get(limitPerType) > 25
    THEN Some("Invalid --limit-per-type value: Maximum allowed is 25.")
    ELSE Undefined

\* longest --limit-per-type value
MaxArgLen == 3

\* the values of --limit-per-type; '5' is the default of the option
LimitArgInputs ==
    SeqsUpTo({"0", "2", "6", "-", ".", "a"}, MaxArgLen) \cup {<<"5">>}

(***************************************************************************)
(* Comments controller: listInlineComments                                 *)
(***************************************************************************)
\* a comment of the page as the comments service returns it
Comment(id, location, status, markerRef) ==
    [id |-> id, location |-> location, status |-> status,
     markerRef |-> markerRef]

\* most comments on the page
MaxComments == 3

\* most calls of listInlineComments in one run
MaxInlineCalls == 3

\* the answers of the comments service: comments with distinct ids
CommentsDataInputs ==
    LET comments ==
            {Comment("1", Some("inline"), "current", Some("m2")),
             Comment("2", Some("inline"), "current", Undefined),
             Comment("3", Some("inline"), "resolved", Some("m1")),
             Comment("4", Some("footer"), "current", Undefined)}
    IN  {s \in SeqsUpTo(comments, MaxComments) :
            \A i, j \in 1..Len(s) : i /= j => s[i].id /= s[j].id}

\* start = 0 by default
StartOf(o) == IF IsDefined(o.start) THEN Get(o.start) ELSE 0

\* the predicate of the filter: inline, and current unless resolved
\* comments were asked for
IsKeptInline(comment, includeResolved) ==
    IF ~includeResolved /\ comment.status /= "current" THEN FALSE
    ELSE comment.location = Some("inline")

\* the place of a string in the order of localeCompare
CollationRank(s) ==
    CASE s = "1" -> 1 [] s = "2" -> 2 [] s = "3" -> 3 [] s = "4" -> 4
      [] s = "m1" -> 5 [] s = "m2" -> 6

\* what the comparator of the requested order compares: for 'position',
\* a.extensions?.inlineProperties?.markerRef || a.id
SortKey(comment, sortBy) ==
    IF sortBy = "position" /\ IsDefined(comment.markerRef)
    THEN CollationRank(Get(comment.markerRef))
    ELSE CollationRank(comment.id)

RECURSIVE InsertSorted(_, _, _)
InsertSorted(comment, sorted, sortBy) ==
    IF sorted = <<>> THEN <<comment>>
    ELSE IF SortKey(comment, sortBy) < SortKey(Head(sorted), sortBy)
    THEN <<comment>> \o sorted
    ELSE <<Head(sorted)>> \o InsertSorted(comment, Tail(sorted), sortBy)

RECURSIVE sort(_, _)
\* Array.prototype.sort with the comparator of sortBy (the sort is stable)
sort(list, sortBy) ==
    IF list = <<>> THEN <<>>
    ELSE InsertSorted(list[Len(list)],
                      sort(SubSeq(list, 1, Len(list) - 1), sortBy), sortBy)

\* a slice that includes the element at `end`
sliceInclusive(list, start, end) ==
    SubSeq(list, start + 1, Min(end + 1, Len(list)))

\* Array.prototype.slice(start, end) for 0 <= start <= end
slice(list, start, end) == SubSeq(list, start + 1, Min(end, Len(list)))

\* convertedComments: the inline comments, filtered then sorted;
\* includeResolved is false and sortBy 'position' by default
convertedComments(results, o) ==
    LET includeResolved ==
            IF IsDefined(o.includeResolved) THEN Get(o.includeResolved)
            ELSE FALSE
        sortBy == IF IsDefined(o.sortBy) THEN Get(o.sortBy) ELSE "position"
    IN  sort(SelectSeq(results,
                       LAMBDA comment : IsKeptInline(comment, includeResolved)),
             sortBy)

\* what formatInlineCommentsList renders: the comments, the count, and the
\* starts it announces for the next and the previous page
formatInlineCommentsList(commentsData, totalCount, start, limit) ==
    IF commentsData = <<>>
    THEN [comments |-> <<>>, found |-> Undefined, nextStart |-> Undefined,
          prevStart |-> Undefined]
    ELSE [comments |-> commentsData,
          found |-> Some(totalCount),
          nextStart |->
            IF totalCount > limit /\ start + Len(commentsData) < totalCount
            THEN Some(start + limit) ELSE Undefined,
          prevStart |->
            IF totalCount > limit /\ start > 0
            THEN Some(Max(0, start - limit)) ELSE Undefined]

\* the options of listInlineComments: the limit is always given
InlineOptionInputs ==
    [pageId : {<<"4", "2">>},
     includeResolved : {Undefined, Some(TRUE)},
     sortBy : {Undefined, Some("created")},
     limit : {Some(1), Some(2)},
     start : {Undefined, Some(1), Some(2), Some(3)}]

\* the catch block: the error goes to handleControllerError with the
\* context of the listing
inlineCatch(error) ==
    [error |-> error, entityType |-> "InlineComment", operation |-> "list"]

(***************************************************************************)
(* State                                                                   *)
(***************************************************************************)
VARIABLES
    pc,                 \* position of search: "idle", "awaiting", "done"
    options,            \* the argument of search (Undefined before the call)
    normalizedOptions,  \* the local normalizedOptions (Undefined is null)
    calls,              \* the SearchParams handed to the search service
    promises,           \* per section, the promise of its executor call
    firstCompleted,     \* the section whose call completed first, if any
    resultsByType,      \* the local resultsByType, once built
    returned,           \* the ControllerResponse search returned
    thrown,             \* the errors search threw
    listPc,             \* position of list: "idle", "primary", "lookup",
                        \* "fallback", "done"
    params,             \* the argument of list (Undefined before the call)
    pageRequests,       \* the requests sent to the pages endpoint
    spaceLookups,       \* the arguments handed to the spaces service
    validatedData,      \* the validated primary page
    cqlParts,           \* the local cqlParts of tryPartialTitleSearch
    lookupError,        \* the error caught around the space lookup
    searchError,        \* the error caught around the fallback search
    spaceLookupResponse,\* what the spaces service answered the lookup
    searchResponse,     \* what the search service answered the fallback
    partialResults,     \* what tryPartialTitleSearch returned to list
    listReturned,       \* the page list returned
    listThrown,         \* the errors list threw
    contentPc,          \* position of the search controller's search:
                        \* "idle", "awaiting", "done"
    mergedOptions,      \* the local mergedOptions of that search
    finalCql,           \* the local finalCql of that search
    contentReturned,    \* the ControllerResponse that search returned
    contentThrown,      \* the errors that search threw
    escapeArg,          \* the argument of escapeCqlValue
    escapeResult,       \* what escapeCqlValue returned
    cliArg,             \* the --limit-per-type value of the search-all run
    cliSearchCall,      \* the options search-all called the controller with
    cliStderr,          \* the error message search-all printed
    exitCode,           \* the exit code of the search-all run
    inlinePc,           \* position of listInlineComments: "idle", "awaiting"
    inlineOptions,      \* the argument of the current listInlineComments
    commentStore,       \* the comments of the page, once the service has
                        \* answered
    commentRequests,    \* the parameters handed to listPageComments
    inlineCalls,        \* per finished call, its options and its response
    inlineThrown        \* the errors listInlineComments threw

searchVars ==
    <<pc, options, normalizedOptions, promises, firstCompleted,
      resultsByType, returned, thrown>>

listVars ==
    <<listPc, params, pageRequests, spaceLookups, validatedData, cqlParts,
      lookupError, searchError, spaceLookupResponse, searchResponse,
      partialResults, listReturned, listThrown>>

queryVars ==
    <<contentPc, mergedOptions, finalCql, contentReturned, contentThrown,
      escapeArg, escapeResult>>

cliVars == <<cliArg, cliSearchCall, cliStderr, exitCode>>

inlineVars ==
    <<inlinePc, inlineOptions, commentStore, commentRequests, inlineCalls,
      inlineThrown>>

vars == <<searchVars, listVars, queryVars, cliVars, inlineVars, calls>>

InitSearch ==
    /\ pc = "idle"
    /\ options = Undefined
    /\ normalizedOptions = Undefined
    /\ calls = <<>>
    /\ promises = [t \in Sections |-> NoPromise]
    /\ firstCompleted = Undefined
    /\ resultsByType = Undefined
    /\ returned = Undefined
    /\ thrown = <<>>

InitList ==
    /\ listPc = "idle"
    /\ params = Undefined
    /\ pageRequests = <<>>
    /\ spaceLookups = <<>>
    /\ validatedData = Undefined
    /\ cqlParts = <<>>
    /\ lookupError = Undefined
    /\ searchError = Undefined
    /\ spaceLookupResponse = Undefined
    /\ searchResponse = Undefined
    /\ partialResults = Undefined
    /\ listReturned = Undefined
    /\ listThrown = <<>>

InitQuery ==
    /\ contentPc = "idle"
    /\ mergedOptions = Undefined
    /\ finalCql = Undefined
    /\ contentReturned = Undefined
    /\ contentThrown = <<>>
    /\ escapeArg = Undefined
    /\ escapeResult = Undefined

Init ==
    /\ InitSearch
    /\ InitList
    /\ InitQuery
    /\ cliArg = Undefined
    /\ cliSearchCall = Undefined
    /\ cliStderr = Undefined
    /\ exitCode = Undefined
    /\ inlinePc = "idle"
    /\ inlineOptions = Undefined
    /\ commentStore = Undefined
    /\ commentRequests = <<>>
    /\ inlineCalls = <<>>
    /\ inlineThrown = <<>>

\* a check of the query that does not trim it
QueryIsMissing(o) ==
    IF IsDefined(o.query) THEN Len(Get(o.query)) = 0 ELSE TRUE

\* !options.query || options.query.trim().length === 0
QueryIsBlank(o) ==
    IF IsDefined(o.query) THEN Len(trim(Get(o.query))) = 0 ELSE TRUE

\* search called without a usable query: advisory, nothing else happens
SearchEmptyQuery(o) ==
    /\ pc = "idle"
    /\ QueryIsBlank(o)
    /\ options' = Some(o)
    /\ returned' = Some(EmptyQueryAdvisory)
    /\ pc' = "done"
    /\ UNCHANGED <<normalizedOptions, calls, promises, firstCompleted,
                   resultsByType, thrown, listVars, queryVars, cliVars,
                   inlineVars>>

\* search called with every type switched off: advisory after normalisation
SearchNoTypes(o) ==
    /\ pc = "idle"
    /\ ~QueryIsBlank(o)
    /\ includedTypes(normalizeOptions(o)) = <<>>
    /\ options' = Some(o)
    /\ normalizedOptions' = Some(normalizeOptions(o))
    /\ returned' = Some(NoTypesAdvisory)
    /\ pc' = "done"
    /\ UNCHANGED <<calls, promises, firstCompleted, resultsByType, thrown,
                   listVars, queryVars, cliVars, inlineVars>>

\* search up to `await Promise.all`: every included type's async callback
\* runs to its own await, which issues that type's executor call
SearchFanOut(o) ==
    LET normalized == normalizeOptions(o)
        types == includedTypes(normalized)
    IN  /\ pc = "idle"
        /\ ~QueryIsBlank(o)
        /\ types /= <<>>
        /\ options' = Some(o)
        /\ normalizedOptions' = Some(normalized)
        /\ calls' = calls \o [i \in 1..Len(types) |->
                                SearchParamsForType(types[i], normalized)]
        /\ promises' = [t \in Sections |->
                          IF \E i \in 1..Len(types) : types[i] = t
                          THEN PendingPromise ELSE promises[t]]
        /\ pc' = "awaiting"
        /\ UNCHANGED <<firstCompleted, resultsByType, returned, thrown,
                       listVars, queryVars, cliVars, inlineVars>>

\* what search does once the promise of type t has settled as p: nothing
\* while Promise.all is pending; the rest of the try block once it is
\* fulfilled; the catch block once it is rejected
SearchAfterSettle(t, p) ==
    LET normalized == Get(normalizedOptions)
        types == includedTypes(normalized)
        ps == [promises EXCEPT ![t] = p]
        first == IF IsDefined(firstCompleted) THEN firstCompleted ELSE Some(t)
        all == PromiseAll(types, ps)
        byType == BuildResultsByType(ResolvedResults(types, ps))
    IN  /\ promises' = ps
        /\ firstCompleted' = first
        /\ UNCHANGED <<options, normalizedOptions, calls, listVars, queryVars,
                       cliVars, inlineVars>>
        /\ CASE all = "pending" ->
                    UNCHANGED <<pc, resultsByType, returned, thrown>>
             [] all = "fulfilled" ->
                    /\ resultsByType' = Some(byType)
                    /\ returned' =
                        Some([content |-> formatUniversalSearchResults(
                                FormatterInput(normalized, types, first,
                                               byType))])
                    /\ pc' = "done"
                    /\ UNCHANGED thrown
             [] all = "rejected" ->
                    /\ thrown' = Append(thrown, searchCatch(Get(p.error)))
                    /\ pc' = "done"
                    /\ UNCHANGED <<resultsByType, returned>>

\* the executor call of type t resolves while search awaits
CallResolves(t, results) ==
    /\ pc = "awaiting"
    /\ promises[t].state = "pending"
    /\ SearchAfterSettle(t, Fulfilled(results))

\* the executor call of type t fails while search awaits
CallRejects(t, error) ==
    /\ pc = "awaiting"
    /\ promises[t].state = "pending"
    /\ SearchAfterSettle(t, Rejected(error))

\* a late settlement that search still reacts to
LateSettleObserved(t, state) ==
    /\ pc = "done"
    /\ promises[t].state = "pending"
    /\ promises' = [promises EXCEPT ![t].state = state]
    /\ thrown' = IF state = "rejected"
                 THEN Append(thrown, searchCatch(thrown[1]))
                 ELSE thrown
    /\ UNCHANGED <<pc, options, normalizedOptions, calls, firstCompleted,
                   resultsByType, returned, listVars, queryVars, cliVars,
                   inlineVars>>

\* a call still in flight settles after search has thrown: no reaction is
\* attached to it any more, so its value or error reaches nobody
LateSettle(t, state) ==
    /\ pc = "done"
    /\ promises[t].state = "pending"
    /\ promises' = [promises EXCEPT ![t].state = state]
    /\ UNCHANGED <<pc, options, normalizedOptions, calls, firstCompleted,
                   resultsByType, returned, thrown, listVars, queryVars,
                   cliVars, inlineVars>>

NextSearch ==
    \/ \E o \in OptionInputs : SearchEmptyQuery(o)
    \/ \E o \in OptionInputs : SearchNoTypes(o)
    \/ \E o \in OptionInputs : SearchFanOut(o)
    \/ \E t \in Sections, r \in ResultInputs : CallResolves(t, r)
    \/ \E t \in Sections, e \in ErrorInputs : CallRejects(t, e)
    \/ \E t \in Sections, state \in {"fulfilled", "rejected"} :
            LateSettle(t, state)

\* list called without credentials: it throws before any request
ListWithoutCredentials(p) ==
    /\ listPc = "idle"
    /\ params' = Some(p)
    /\ listThrown' = Append(listThrown, AuthMissingError)
    /\ listPc' = "done"
    /\ UNCHANGED <<spaceLookupResponse, searchResponse, pageRequests,
                   spaceLookups, validatedData, cqlParts, lookupError,
                   searchError, partialResults, listReturned, calls,
                   searchVars, queryVars, cliVars, inlineVars>>

\* list up to `await fetchAtlassian`: the primary request is sent
List(p) ==
    /\ listPc = "idle"
    /\ params' = Some(p)
    /\ pageRequests' = Append(pageRequests, PrimaryRequest(p))
    /\ listPc' = "primary"
    /\ UNCHANGED <<spaceLookupResponse, searchResponse, spaceLookups,
                   validatedData, cqlParts, lookupError, searchError,
                   partialResults, listReturned, listThrown, calls, searchVars,
                   queryVars, cliVars, inlineVars>>

\* the primary request fails: list rethrows the error
PrimaryFails(error) ==
    /\ listPc = "primary"
    /\ listThrown' = Append(listThrown, error)
    /\ listPc' = "done"
    /\ UNCHANGED <<spaceLookupResponse, searchResponse, params, pageRequests,
                   spaceLookups, validatedData, cqlParts, lookupError,
                   searchError, partialResults, listReturned, calls,
                   searchVars, queryVars, cliVars, inlineVars>>

\* the primary response does not match PagesResponseSchema
PrimaryInvalid ==
    /\ listPc = "primary"
    /\ listThrown' = Append(listThrown, ValidationError)
    /\ listPc' = "done"
    /\ UNCHANGED <<spaceLookupResponse, searchResponse, params, pageRequests,
                   spaceLookups, validatedData, cqlParts, lookupError,
                   searchError, partialResults, listReturned, calls,
                   searchVars, queryVars, cliVars, inlineVars>>

\* tryPartialTitleSearch from the end of the space lookup on: the type
\* clause is pushed, the clauses are joined and the search call is issued
IssueFallbackSearch(parts) ==
    /\ cqlParts' = Append(parts, TypeClause)
    /\ calls' = Append(calls, FallbackSearchParams(Get(params), parts))
    /\ listPc' = "fallback"

\* the primary response is valid: list returns it, or enters
\* tryPartialTitleSearch, which runs to its first await
PrimaryResponds(page) ==
    LET p == Get(params)
        parts == TitleClauses(p)
    IN  /\ listPc = "primary"
        /\ validatedData' = Some(page)
        /\ UNCHANGED <<spaceLookupResponse, searchResponse, params,
                       pageRequests, lookupError, searchError, partialResults,
                       listThrown, searchVars, queryVars, cliVars, inlineVars>>
        /\ IF FallbackPermitted(p, page)
           THEN IF Truthy(p.spaceId)
                THEN /\ spaceLookups' =
                            Append(spaceLookups, SpaceLookupParams(p))
                     /\ cqlParts' = parts
                     /\ listPc' = "lookup"
                     /\ UNCHANGED <<calls, listReturned>>
                ELSE /\ IssueFallbackSearch(parts)
                     /\ UNCHANGED <<spaceLookups, listReturned>>
           ELSE /\ listReturned' = Some(page)
                /\ listPc' = "done"
                /\ UNCHANGED <<spaceLookups, cqlParts, calls>>

\* the space lookup answers: its keys become one parenthesized clause
LookupResponds(spacesResponse) ==
    /\ listPc = "lookup"
    /\ spaceLookupResponse' = Some(spacesResponse)
    /\ IssueFallbackSearch(cqlParts \o SpaceClauses(spacesResponse))
    /\ UNCHANGED <<searchResponse, params, pageRequests, spaceLookups,
                   validatedData, lookupError, searchError, partialResults,
                   listReturned, listThrown, searchVars, queryVars, cliVars,
                   inlineVars>>

\* the space lookup fails
LookupFails(error) ==
    LET handled == LookupFailureHandler(error)
    IN  /\ listPc = "lookup"
        /\ lookupError' = Some(error)
        /\ UNCHANGED <<spaceLookupResponse, searchResponse, params,
                       pageRequests, spaceLookups, validatedData, searchError,
                       partialResults, listReturned, searchVars, queryVars,
                       cliVars, inlineVars>>
        /\ IF handled.threw
           THEN /\ listThrown' = Append(listThrown, handled.error)
                /\ listPc' = "done"
                /\ UNCHANGED <<cqlParts, calls>>
           ELSE /\ IssueFallbackSearch(cqlParts)
                /\ UNCHANGED listThrown

\* the fallback search answers: its hits are transformed, and list returns
\* them if any is left, the primary page otherwise
FallbackResponds(searchResults) ==
    /\ listPc = "fallback"
    /\ searchResponse' = Some(searchResults)
    /\ partialResults' =
        Some(transformSearchResultsToPagesFormat(searchResults))
    /\ listReturned' =
        Some(PageAfterFallback(Get(validatedData),
                transformSearchResultsToPagesFormat(searchResults)))
    /\ listPc' = "done"
    /\ UNCHANGED <<spaceLookupResponse, params, pageRequests, spaceLookups,
                   validatedData, cqlParts, lookupError, searchError,
                   listThrown, calls, searchVars, queryVars, cliVars,
                   inlineVars>>

\* the fallback search fails
FallbackFails(error) ==
    LET handled == SearchFailureHandler(error)
    IN  /\ listPc = "fallback"
        /\ searchError' = Some(error)
        /\ listPc' = "done"
        /\ UNCHANGED <<spaceLookupResponse, searchResponse, params,
                       pageRequests, spaceLookups, validatedData, cqlParts,
                       lookupError, calls, searchVars, queryVars, cliVars,
                       inlineVars>>
        /\ IF handled.threw
           THEN /\ listThrown' = Append(listThrown, handled.error)
                /\ UNCHANGED <<partialResults, listReturned>>
           ELSE /\ partialResults' = Some(handled.value)
                /\ listReturned' =
                    Some(PageAfterFallback(Get(validatedData), handled.value))
                /\ UNCHANGED listThrown

NextList ==
    \/ \E p \in ListParamsInputs : ListWithoutCredentials(p)
    \/ \E p \in ListParamsInputs : List(p)
    \/ \E e \in ErrorInputs : PrimaryFails(e)
    \/ PrimaryInvalid
    \/ \E page \in PrimaryPageInputs : PrimaryResponds(page)
    \/ \E r \in SpacesResponseInputs : LookupResponds(r)
    \/ \E e \in ErrorInputs : LookupFails(e)
    \/ \E r \in FallbackResponseInputs : FallbackResponds(r)
    \/ \E e \in ErrorInputs : FallbackFails(e)

\* the universal search controller
SearchSpec == Init /\ [][NextSearch]_vars

\* the pages service
ListSpec == Init /\ [][NextList]_vars

(***************************************************************************)
(* The search controller and the escaper as state machines                 *)
(***************************************************************************)
\* search called with nothing to search for: the advisory, no executor call
ContentSearchNoCriteria(o) ==
    LET merged == applyDefaults(o)
        cql == buildCqlQuery(merged)
    IN  /\ contentPc = "idle"
        /\ NoCriteria(cql)
        /\ mergedOptions' = Some(merged)
        /\ finalCql' = Some(cql)
        /\ contentReturned' = Some(NoCriteriaAdvisory)
        /\ contentPc' = "done"
        /\ UNCHANGED <<contentThrown, escapeArg, escapeResult, calls,
                       searchVars, listVars, cliVars, inlineVars>>

\* search up to `await atlassianSearchService.search(params)`
ContentSearchCall(o) ==
    LET merged == applyDefaults(o)
        cql == buildCqlQuery(merged)
    IN  /\ contentPc = "idle"
        /\ ~NoCriteria(cql)
        /\ mergedOptions' = Some(merged)
        /\ finalCql' = Some(cql)
        /\ calls' = Append(calls, ContentSearchParams(merged, cql))
        /\ contentPc' = "awaiting"
        /\ UNCHANGED <<contentReturned, contentThrown, escapeArg, escapeResult,
                       searchVars, listVars, cliVars, inlineVars>>

\* the search service answers: the rest of the try block
ContentSearchResolves(searchData) ==
    /\ contentPc = "awaiting"
    /\ contentReturned' = Some(ContentOf(Get(finalCql), searchData))
    /\ contentPc' = "done"
    /\ UNCHANGED <<mergedOptions, finalCql, contentThrown, escapeArg,
                   escapeResult, calls, searchVars, listVars, cliVars,
                   inlineVars>>

\* the search service fails: the catch block
ContentSearchRejects(error) ==
    /\ contentPc = "awaiting"
    /\ contentThrown' = Append(contentThrown, contentSearchCatch(error))
    /\ contentPc' = "done"
    /\ UNCHANGED <<mergedOptions, finalCql, contentReturned, escapeArg,
                   escapeResult, calls, searchVars, listVars, cliVars,
                   inlineVars>>

NextContentSearch ==
    \/ \E o \in SearchToolArgsInputs : ContentSearchNoCriteria(o)
    \/ \E o \in SearchToolArgsInputs : ContentSearchCall(o)
    \/ \E d \in SearchDataInputs : ContentSearchResolves(d)
    \/ \E e \in ErrorInputs : ContentSearchRejects(e)

\* one application of escapeCqlValue
EscapeValue(value) ==
    /\ escapeArg = Undefined
    /\ escapeArg' = Some(value)
    /\ escapeResult' = Some(escapeCqlValue(value))
    /\ UNCHANGED <<contentPc, mergedOptions, finalCql, contentReturned,
                   contentThrown, calls, searchVars, listVars, cliVars,
                   inlineVars>>

NextEscape == \E value \in TextInputs : EscapeValue(value)

\* the universal search called with filters, up to its executor calls
NextFilter ==
    \/ \E o \in FilterOptionInputs : SearchEmptyQuery(o)
    \/ \E o \in FilterOptionInputs : SearchNoTypes(o)
    \/ \E o \in FilterOptionInputs : SearchFanOut(o)

\* the universal search called while the search controller is not in use
UniversalSearchAlone(o) == contentPc = "idle" /\ SearchFanOut(o)

\* the search controller called while the universal search is not in use
ContentSearchAlone(o) == pc = "idle" /\ ContentSearchCall(o)

\* one call of either controller, its executor calls failing with any of
\* the statuses
NextError ==
    \/ \E o \in ErrorOptionInputs : UniversalSearchAlone(o)
    \/ \E t \in Sections, r \in ResultInputs : CallResolves(t, r)
    \/ \E t \in Sections, e \in StatusErrorInputs : CallRejects(t, e)
    \/ \E t \in Sections, state \in {"fulfilled", "rejected"} :
            LateSettle(t, state)
    \/ \E o \in ErrorToolArgsInputs : ContentSearchAlone(o)
    \/ \E d \in SearchDataInputs : ContentSearchResolves(d)
    \/ \E e \in StatusErrorInputs : ContentSearchRejects(e)

\* the universal search with every kind of limit, its calls succeeding
NextLimit ==
    \/ \E o \in LimitOptionInputs : SearchFanOut(o)
    \/ \E t \in Sections, r \in LimitResultInputs : CallResolves(t, r)

\* the search-all action up to a rejected --limit-per-type: the error is
\* thrown before the controller is called, and handleCliError prints it and
\* exits with code 1
SearchAllRejects(arg) ==
    LET limitPerType == parseInt(arg)
    IN  /\ cliArg = Undefined
        /\ LimitPerTypeError(limitPerType) /= Undefined
        /\ cliArg' = Some(arg)
        /\ cliStderr' = LimitPerTypeError(limitPerType)
        /\ exitCode' = Some(1)
        /\ UNCHANGED <<cliSearchCall, calls, searchVars, listVars, queryVars,
                       inlineVars>>

\* the search-all action up to its call of the controller; the --no-<type>
\* switches are left alone, so every type is included
SearchAllSearches(arg) ==
    LET limitPerType == parseInt(arg)
    IN  /\ cliArg = Undefined
        /\ LimitPerTypeError(limitPerType) = Undefined
        /\ cliArg' = Some(arg)
        /\ cliSearchCall' =
                Some([query |-> Some(<<"a">>),
                      spaceKey |-> Undefined,
                      labels |-> Undefined,
                      includeSpaces |-> Some(TRUE),
                      includePages |-> Some(TRUE),
                      includeBlogPosts |-> Some(TRUE),
                      includeAttachments |-> Some(TRUE),
                      includeComments |-> Some(TRUE),
                      limitPerType |-> limitPerType])
        /\ UNCHANGED <<cliStderr, exitCode, calls, searchVars, listVars,
                       queryVars, inlineVars>>

NextCli ==
    \/ \E arg \in LimitArgInputs : SearchAllRejects(arg)
    \/ \E arg \in LimitArgInputs : SearchAllSearches(arg)

\* listInlineComments up to `await listPageComments(...)`; a later call of
\* the run asks for another page of the same listing
ListInlineComments(o) ==
    /\ inlinePc = "idle"
    /\ Len(inlineCalls) + Len(inlineThrown) < MaxInlineCalls
    /\ inlineOptions /= Undefined =>
            [o EXCEPT !.start = Undefined] =
                [Get(inlineOptions) EXCEPT !.start = Undefined]
    /\ inlineOptions' = Some(o)
    /\ commentRequests' =
            Append(commentRequests,
                   [pageId |-> o.pageId, limit |-> 250, start |-> 0,
                    bodyFormat |-> "atlas_doc_format"])
    /\ inlinePc' = "awaiting"
    /\ UNCHANGED <<commentStore, inlineCalls, inlineThrown, calls,
                   searchVars, listVars, queryVars, cliVars>>

\* the comments service answers (with the comments of the page, which do
\* not change during the run): filter, sort, slice and format
CommentsRespond(results) ==
    LET o == Get(inlineOptions)
        start == StartOf(o)
        limit == Get(o.limit)
        converted == convertedComments(results, o)
        paginatedComments == slice(converted, start, start + limit)
    IN  /\ inlinePc = "awaiting"
        /\ commentStore /= Undefined => results = Get(commentStore)
        /\ commentStore' = Some(results)
        /\ inlineCalls' =
            Append(inlineCalls,
                   [options |-> o,
                    content |-> formatInlineCommentsList(
                        paginatedComments, Len(converted), start, limit)])
        /\ inlinePc' = "idle"
        /\ UNCHANGED <<inlineOptions, commentRequests, inlineThrown, calls,
                       searchVars, listVars, queryVars, cliVars>>

\* the comments service fails: the catch block rethrows
CommentsFail(error) ==
    /\ inlinePc = "awaiting"
    /\ inlineThrown' = Append(inlineThrown, inlineCatch(error))
    /\ inlinePc' = "idle"
    /\ UNCHANGED <<inlineOptions, commentStore, commentRequests, inlineCalls,
                   calls, searchVars, listVars, queryVars, cliVars>>

NextInline ==
    \/ \E o \in InlineOptionInputs : ListInlineComments(o)
    \/ \E results \in CommentsDataInputs : CommentsRespond(results)
    \/ \E e \in ErrorInputs : CommentsFail(e)

\* the search controller
ContentSearchSpec == Init /\ [][NextContentSearch]_vars

\* the escaper applied to every text of the input set
EscapeSpec == Init /\ [][NextEscape]_vars

\* the universal search controller called with space and label filters
FilterSpec == Init /\ [][NextFilter]_vars

\* both controllers with failing executor calls
ErrorSpec == Init /\ [][NextError]_vars

\* the universal search controller called with limits
LimitSpec == Init /\ [][NextLimit]_vars

\* the search-all command
CliSpec == Init /\ [][NextCli]_vars

\* the comments controller
InlineSpec == Init /\ [][NextInline]_vars

(***************************************************************************)
(* Properties of the universal search                                      *)
(***************************************************************************)
\* the toggle of section t as the caller passed it
RawToggle(t) ==
    LET o == Get(options)
    IN  CASE t = "spaces" -> o.includeSpaces
          [] t = "pages" -> o.includePages
          [] t = "blogPosts" -> o.includeBlogPosts
          [] t = "attachments" -> o.includeAttachments
          [] t = "comments" -> o.includeComments

\* a category is enabled unless its toggle was passed as false
EnabledByCaller(t) == RawToggle(t) /= Some(FALSE)

\* the query the caller passed is absent or holds only whitespace
CallerQueryBlank ==
    LET q == Get(options).query
    IN  IF q = Undefined THEN TRUE
        ELSE \A i \in 1..Len(Get(q)) : Get(q)[i] \in {" ", "\n", "\t"}

\* the executor calls issued for section t
CallsOfSection(t) ==
    {i \in 1..Len(calls) :
        /\ Len(calls[i].cql) >= 2
        /\ calls[i].cql[1] = "type = "
        /\ calls[i].cql[2] = SECTION_TO_CQL_TYPE[t]}

\* the result list the call of section t resolved with
OwnResults(t) ==
    IF promises[t].results = Undefined THEN <<>>
    ELSE Get(promises[t].results)

\* C1: if the executor call of any category has failed, search has failed:
\* it has thrown exactly one error and has neither built a result map nor
\* returned a response, whatever the other calls did.
C1_AnyFailureFailsSearch ==
    (\E t \in Sections : promises[t].state = "rejected") =>
        /\ pc = "done"
        /\ Len(thrown) = 1
        /\ returned = Undefined
        /\ resultsByType = Undefined

\* one call failed, at least two others succeeded, and search threw
C1_Witness ==
    /\ pc = "done"
    /\ Len(thrown) = 1
    /\ Cardinality({t \in Sections : promises[t].state = "rejected"}) = 1
    /\ Cardinality({t \in Sections : promises[t].state = "fulfilled"}) >= 2
    /\ \A t \in Sections : promises[t].state /= "pending"

\* C2: once search has built and returned its result map, none of the calls
\* it issued is still in flight.
C2_ResultOnlyAfterAllResolved ==
    (resultsByType /= Undefined \/ returned /= Undefined) =>
        \A t \in Sections : promises[t].state /= "pending"

\* a result returned after three or more calls resolved
C2_Witness ==
    /\ resultsByType /= Undefined
    /\ returned /= Undefined
    /\ Cardinality({t \in Sections : promises[t].state = "fulfilled"}) >= 3

\* C7: for a non-blank query with at least one enabled category, from the
\* moment search awaits there is exactly one executor call per enabled
\* category (a toggle left out counts as enabled) and none for a disabled
\* one; the set of calls is complete before any response is consumed and
\* never grows afterwards.
C7_OneCallPerEnabledCategory ==
    (/\ pc /= "idle"
     /\ ~CallerQueryBlank
     /\ \E t \in Sections : EnabledByCaller(t)) =>
        /\ \A t \in Sections :
            Cardinality(CallsOfSection(t)) =
                IF EnabledByCaller(t) THEN 1 ELSE 0
        /\ Len(calls) = Cardinality({t \in Sections : EnabledByCaller(t)})
        /\ \A t \in Sections :
            promises[t].state /= "none" <=> EnabledByCaller(t)

\* search awaits with an omitted toggle, an explicit true and an explicit
\* false: calls for the first two only, no response consumed yet
C7_Witness ==
    /\ pc = "awaiting"
    /\ RawToggle("spaces") = Undefined
    /\ RawToggle("pages") = Some(TRUE)
    /\ RawToggle("comments") = Some(FALSE)
    /\ Cardinality(CallsOfSection("spaces")) = 1
    /\ Cardinality(CallsOfSection("pages")) = 1
    /\ Cardinality(CallsOfSection("comments")) = 0
    /\ \A t \in Sections : promises[t].state \in {"none", "pending"}

\* C8: the result map of a successful search has exactly the five keys; a
\* category that was not enabled maps to the empty sequence and an enabled
\* one to the result list of its own call (empty when it had no results).
C8_ResultMapShape ==
    resultsByType /= Undefined =>
        LET map == Get(resultsByType)
        IN  /\ DOMAIN map = Sections
            /\ \A t \in DOMAIN map :
                map[t] = IF EnabledByCaller(t) THEN OwnResults(t) ELSE <<>>

\* a map with a disabled category, an enabled one with a hit and an enabled
\* one without
C8_Witness ==
    /\ resultsByType /= Undefined
    /\ \E t \in Sections : ~EnabledByCaller(t)
    /\ \E t \in Sections :
        EnabledByCaller(t) /\ Get(resultsByType)[t] = <<SearchHit>>
    /\ \E t \in Sections :
        /\ EnabledByCaller(t)
        /\ promises[t].results = Some(<<>>)
        /\ Get(resultsByType)[t] = <<>>

\* the sections of the enabled categories in the fixed order, each with the
\* results of its own call
ExpectedSections ==
    LET types == SelectSeq(SectionOrder, EnabledByCaller)
    IN  [i \in 1..Len(types) |->
            [type |-> types[i], results |-> OwnResults(types[i])]]

\* C9: the response of a successful search is determined by the options and
\* the executor responses alone: the sections handed to the renderer are
\* those of the enabled categories in the order spaces, pages, blogPosts,
\* attachments, comments, whichever call completed first.
C9_ResultIndependentOfCompletionOrder ==
    resultsByType /= Undefined =>
        LET content == Get(returned).content
        IN  /\ content.sections = ExpectedSections
            /\ content.includedTypes = SelectSeq(SectionOrder, EnabledByCaller)

\* a successful search whose last category completed first
C9_Witness ==
    /\ resultsByType /= Undefined
    /\ Len(calls) >= 3
    /\ firstCompleted = Some("comments")
    /\ Get(returned).content.sections[1].type /= "comments"

\* C10: when the caller's query is absent or blank, or every toggle is off,
\* search returns an advisory message and no executor call is ever made.
C10_AdvisoryWithoutCalls ==
    (/\ pc /= "idle"
     /\ \/ CallerQueryBlank
        \/ \A t \in Sections : RawToggle(t) = Some(FALSE)) =>
        /\ pc = "done"
        /\ returned \in {Some(EmptyQueryAdvisory), Some(NoTypesAdvisory)}
        /\ calls = <<>>
        /\ thrown = <<>>
        /\ \A t \in Sections : promises[t].state = "none"

\* a query of one space was answered with the advisory
C10_Witness ==
    /\ pc = "done"
    /\ Get(options).query = Some(<<" ">>)
    /\ returned = Some(EmptyQueryAdvisory)
    /\ calls = <<>>

(***************************************************************************)
(* Properties of the pages service                                         *)
(***************************************************************************)
\* the caller set a title filter
TitleSet == Get(params).title \notin {Undefined, Some(<<>>)}

\* the caller supplied a pagination cursor
CursorSupplied == Get(params).cursor \notin {Undefined, Some(<<>>)}

\* C3: a space lookup or a fallback search is issued only when a title
\* filter is set, the primary page is empty and no cursor was supplied; when
\* the primary page is non-empty or a cursor was supplied, list returns the
\* primary page unchanged and issues neither.
C3_FallbackOnlyOnEmptyFirstPage ==
    /\ (spaceLookups /= <<>> \/ calls /= <<>>) =>
        /\ TitleSet
        /\ validatedData /= Undefined
        /\ Get(validatedData).results = <<>>
        /\ ~CursorSupplied
    /\ (/\ validatedData /= Undefined
        /\ (Get(validatedData).results /= <<>> \/ CursorSupplied)) =>
        /\ listPc = "done"
        /\ listReturned = validatedData
        /\ listThrown = <<>>
        /\ spaceLookups = <<>>
        /\ calls = <<>>

\* an empty primary page for a titled request with a cursor was returned
C3_Witness ==
    /\ listPc = "done"
    /\ validatedData /= Undefined
    /\ TitleSet
    /\ CursorSupplied
    /\ Get(validatedData).results = <<>>
    /\ listReturned = validatedData

\* C4: when the fallback search call has failed, list throws nothing and
\* returns the empty primary page; list throws only when no lookup and no
\* fallback call was made.
C4_FallbackFailureSwallowed ==
    /\ searchError /= Undefined =>
        /\ listPc = "done"
        /\ listThrown = <<>>
        /\ listReturned = validatedData
        /\ Get(listReturned).results = <<>>
    /\ listThrown /= <<>> => (spaceLookups = <<>> /\ calls = <<>>)

\* the fallback search failed and list returned
C4_Witness ==
    /\ searchError /= Undefined
    /\ listPc = "done"
    /\ Len(calls) = 1
    /\ listReturned = validatedData

\* C5: when the space lookup has failed, list throws nothing and the
\* fallback search has been issued with a query that has no space clause:
\* the title clause ANDed with the type clause.
C5_LookupFailureDropsSpaceConstraint ==
    lookupError /= Undefined =>
        /\ listThrown = <<>>
        /\ Len(calls) = 1
        /\ \A i \in 1..Len(calls[1].cql) : calls[1].cql[i] /= "space = "
        /\ calls[1].cql =
            <<"title ~ ", "\"">> \o Get(Get(params).title) \o <<"*", "\"">>
                \o <<" AND ">> \o <<"type = ", "\"", "page", "\"">>

\* the lookup for two space ids failed and the search is in flight
C5_Witness ==
    /\ lookupError /= Undefined
    /\ listPc = "fallback"
    /\ Len(Get(Get(params).spaceId)) = 2
    /\ Len(calls) = 1

\* C6: when the fallback was attempted and left zero records, list returns
\* the primary page, with the links of the pages endpoint.
C6_EmptyFallbackReturnsPrimary ==
    (/\ partialResults /= Undefined
     /\ Get(partialResults).results = <<>>) =>
        /\ listReturned = validatedData
        /\ Get(listReturned).links = Get(validatedData).links

\* the fallback answered with a next link but no page hit, and the primary
\* page, which has another next link, was returned
C6_Witness ==
    /\ partialResults /= Undefined
    /\ searchError = Undefined
    /\ Get(partialResults).results = <<>>
    /\ Get(partialResults).links.next = Some(<<"search-next">>)
    /\ Get(validatedData).links.next = Some(<<"pages-next">>)
    /\ listReturned = validatedData

(***************************************************************************)
(* Properties of the search controller                                     *)
(***************************************************************************)
\* number of occurrences of the atom a in the string s
CountAtom(s, a) == Cardinality({i \in 1..Len(s) : s[i] = a})

\* sub occurs in s as a contiguous piece
Contains(s, sub) ==
    \E i \in 1..(Len(s) - Len(sub) + 1) :
        SubSeq(s, i, i + Len(sub) - 1) = sub

RECURSIVE SplitOn(_, _)
\* the pieces of s between the occurrences of the atom sep
SplitOn(s, sep) ==
    IF \A i \in 1..Len(s) : s[i] /= sep THEN <<s>>
    ELSE LET k == CHOOSE i \in 1..Len(s) :
                    s[i] = sep /\ \A j \in 1..(i - 1) : s[j] /= sep
         IN  <<SubSeq(s, 1, k - 1)>> \o SplitOn(SubSeq(s, k + 1, Len(s)), sep)

\* the character an escape sequence `\c` stands for in a quoted literal
Unescaped(c) ==
    CASE c = "n" -> "\n"
      [] c = "t" -> "\t"
      [] OTHER -> c

RECURSIVE ReadQuoted(_, _)
\* reads a quoted literal whose opening quote has been consumed: `closed`
\* tells whether a closing quote was met, `value` is the text read up to
\* it and `rest` what follows the closing quote
ReadQuoted(s, acc) ==
    IF s = <<>> THEN [closed |-> FALSE, value |-> acc, rest |-> <<>>]
    ELSE IF Head(s) = "\"" THEN
        [closed |-> TRUE, value |-> acc, rest |-> Tail(s)]
    ELSE IF Head(s) = "\\" THEN
        IF Len(s) < 2 THEN [closed |-> FALSE, value |-> acc, rest |-> <<>>]
        ELSE ReadQuoted(SubSeq(s, 3, Len(s)), Append(acc, Unescaped(s[2])))
    ELSE ReadQuoted(Tail(s), Append(acc, Head(s)))

\* the string is exactly one quoted literal that stands for value
IsLiteralOf(s, value) ==
    /\ Len(s) >= 2
    /\ s[1] = "\""
    /\ LET read == ReadQuoted(Tail(s), <<>>)
       IN  read.closed /\ read.rest = <<>> /\ read.value = value

\* a text field of the caller that is absent or empty
TextNotSet(field) == IF IsDefined(field) THEN Get(field) = <<>> ELSE TRUE

\* none of title, space key, labels, content type and free text is set
NoFieldSet(o) ==
    /\ TextNotSet(o.title)
    /\ TextNotSet(o.spaceKey)
    /\ TextNotSet(o.labels)
    /\ o.contentType = Undefined
    /\ TextNotSet(o.query)

\* the raw override is absent or holds nothing but whitespace
RawOverrideBlank(o) ==
    IF IsDefined(o.cql)
    THEN \A i \in 1..Len(Get(o.cql)) : Get(o.cql)[i] \in {" ", "\n", "\t"}
    ELSE TRUE

\* search has been called and has built its query
QueryBuilt == mergedOptions /= Undefined /\ finalCql /= Undefined

\* C11: for every filter set with no field set and no raw override (absent
\* or whitespace-only) the synthesized query is the empty string, and search
\* returns the advisory message without any executor call and without
\* raising an error.
C11_NoCriteriaYieldsAdvisory ==
    (QueryBuilt /\ NoFieldSet(Get(mergedOptions))
        /\ RawOverrideBlank(Get(mergedOptions)))
    => /\ finalCql = Some(<<>>)
       /\ contentPc = "done"
       /\ contentReturned = Some(NoCriteriaAdvisory)
       /\ calls = <<>>
       /\ contentThrown = <<>>

\* search was called with empty fields and a whitespace-only raw override
C11_Witness ==
    /\ QueryBuilt
    /\ NoFieldSet(Get(mergedOptions))
    /\ Get(mergedOptions).title = Some(<<>>)
    /\ Get(mergedOptions).cql = Some(<<" ", "\t">>)
    /\ contentReturned = Some(NoCriteriaAdvisory)

\* the atoms that open a clause, in the order the fields are looked at
ClausePrefixes == <<"title ~ ", "space = ", "label = ", "type = ", "text ~ ">>

IsClausePrefix(a) == \E r \in 1..Len(ClausePrefixes) : ClausePrefixes[r] = a

Rank(a) == CHOOSE r \in 1..Len(ClausePrefixes) : ClausePrefixes[r] = a

\* how many clauses the field set asks for
ExpectedClauseCount(o) ==
    (IF TextNotSet(o.title) THEN 0 ELSE 1)
    + (IF TextNotSet(o.spaceKey) THEN 0 ELSE 1)
    + (IF TextNotSet(o.labels) THEN 0 ELSE Len(Get(o.labels)))
    + (IF o.contentType = Undefined THEN 0 ELSE 1)
    + (IF TextNotSet(o.query) THEN 0 ELSE 1)

\* the query was synthesized from the fields alone (no raw override)
SynthesizedOnly == QueryBuilt /\ RawOverrideBlank(Get(mergedOptions))

\* C16: buildCqlQuery emits one clause per present field in the fixed order
\* title, space, label(s), content-type, free-text, exactly n label clauses
\* for n labels, joined with ' AND '; title A"B with space key DEV gives
\* title ~ "A\"B" AND space = "DEV".
C16_ClausesInFixedOrder ==
    SynthesizedOnly =>
        LET o == Get(mergedOptions)
            cql == Get(finalCql)
            n == ExpectedClauseCount(o)
        IN  /\ CountAtom(cql, "title ~ ")
                = (IF TextNotSet(o.title) THEN 0 ELSE 1)
            /\ CountAtom(cql, "space = ")
                = (IF TextNotSet(o.spaceKey) THEN 0 ELSE 1)
            /\ CountAtom(cql, "label = ")
                = (IF TextNotSet(o.labels) THEN 0 ELSE Len(Get(o.labels)))
            /\ CountAtom(cql, "type = ")
                = (IF o.contentType = Undefined THEN 0 ELSE 1)
            /\ CountAtom(cql, "text ~ ")
                = (IF TextNotSet(o.query) THEN 0 ELSE 1)
            /\ \A i, j \in 1..Len(cql) :
                (i < j /\ IsClausePrefix(cql[i]) /\ IsClausePrefix(cql[j]))
                => Rank(cql[i]) <= Rank(cql[j])
            /\ CountAtom(cql, " AND ") = (IF n = 0 THEN 0 ELSE n - 1)
            /\ \A i \in 1..Len(cql) :
                IsClausePrefix(cql[i])
                => (i = 1 \/ cql[i - 1] = " AND ")
            /\ (/\ o.title = Some(<<"A", "\"", "B">>)
                /\ o.spaceKey = Some(<<"D", "E", "V">>)
                /\ n = 2)
               => cql = <<"title ~ ", "\"", "A", "\\", "\"", "B", "\"",
                          " AND ", "space = ", "\"", "D", "E", "V", "\"">>

\* a query with a title, a space key, two labels, a content type and a text
C16_Witness ==
    /\ SynthesizedOnly
    /\ ExpectedClauseCount(Get(mergedOptions)) = 6
    /\ CountAtom(Get(finalCql), "label = ") = 2
    /\ Get(finalCql)[1] = "title ~ "

\* the clauses of a query synthesized from the fields alone
ClausesOf(cql) == IF cql = <<>> THEN <<>> ELSE SplitOn(cql, " AND ")

\* the clause is `field OP "escapedValue"`: its prefix, then one quoted
\* literal that ends the clause
IsQuotedClause(clause) ==
    /\ Len(clause) >= 3
    /\ IsClausePrefix(clause[1])
    /\ clause[2] = "\""
    /\ LET read == ReadQuoted(SubSeq(clause, 3, Len(clause)), <<>>)
       IN  read.closed /\ read.rest = <<>>

\* the value a quoted clause stands for
ValueOf(clause) == ReadQuoted(SubSeq(clause, 3, Len(clause)), <<>>).value

\* C17 as stated: every clause emitted by buildCqlQuery, the content-type
\* clause included, has the form field OP "escapedValue".
C17_EveryClauseQuoted ==
    SynthesizedOnly =>
        \A k \in 1..Len(ClausesOf(Get(finalCql))) :
            IsQuotedClause(ClausesOf(Get(finalCql))[k])

\* C17: every clause emitted by buildCqlQuery for title, space, label and
\* free text has the form field OP "escapedValue", with ~ for title and
\* free text and = for space and label, the literal standing for the
\* caller's value; the content-type clause is type = <content type>, the
\* value neither quoted nor escaped.
C17_ClauseForms ==
    SynthesizedOnly =>
        LET o == Get(mergedOptions)
            clauses == ClausesOf(Get(finalCql))
            first(prefix) ==
                CHOOSE k \in 1..Len(clauses) :
                    /\ clauses[k][1] = prefix
                    /\ \A j \in 1..(k - 1) : clauses[j][1] /= prefix
        IN  \A k \in 1..Len(clauses) :
                LET clause == clauses[k]
                IN  CASE clause[1] = "type = " ->
                            clause = <<"type = ", Get(o.contentType)>>
                      [] clause[1] = "title ~ " ->
                            /\ IsQuotedClause(clause)
                            /\ ValueOf(clause) = Get(o.title)
                      [] clause[1] = "space = " ->
                            /\ IsQuotedClause(clause)
                            /\ ValueOf(clause) = Get(o.spaceKey)
                      [] clause[1] = "text ~ " ->
                            /\ IsQuotedClause(clause)
                            /\ ValueOf(clause) = Get(o.query)
                      [] clause[1] = "label = " ->
                            /\ IsQuotedClause(clause)
                            /\ ValueOf(clause)
                                = Get(o.labels)[k - first("label = ") + 1]
                      [] OTHER -> FALSE

\* a query with a title holding a quote, a label holding a backslash, a
\* free text holding a newline and a content type
C17_Witness ==
    /\ SynthesizedOnly
    /\ Get(mergedOptions).title = Some(<<"A", "\"", "B">>)
    /\ Get(mergedOptions).labels = Some(<< <<"l", "\\">>, <<"m">> >>)
    /\ Get(mergedOptions).query = Some(<<"q", "\n">>)
    /\ Get(mergedOptions).contentType = Some("page")
    /\ CountAtom(Get(finalCql), "type = ") = 1

\* the raw override counts: it holds more than whitespace
RawOverrideGiven(o) == ~RawOverrideBlank(o)

\* the query the fields alone give
SynthesizedPortion(o) == join(generatedCqlParts(o), <<" AND ">>)

\* C18 as stated: with a raw override and at least one clause, the result
\* is the parenthesized synthesized portion ANDed with the raw override as
\* it was given; with no clause, the raw override alone.
C18_RawOverrideAppendedBare ==
    (QueryBuilt /\ RawOverrideGiven(Get(mergedOptions))) =>
        LET o == Get(mergedOptions)
        IN  Get(finalCql) =
                IF SynthesizedPortion(o) /= <<>>
                THEN <<"(">> \o SynthesizedPortion(o) \o <<") AND ">>
                        \o Get(o.cql)
                ELSE Get(o.cql)

\* C18: with a raw override and at least one synthesized clause, the result
\* is the synthesized portion wrapped in parentheses, ANDed with the raw
\* override, which is wrapped in parentheses of its own and otherwise
\* verbatim; with no synthesized clause, the raw override alone, verbatim.
C18_RawOverrideCombination ==
    (QueryBuilt /\ RawOverrideGiven(Get(mergedOptions))) =>
        LET o == Get(mergedOptions)
            cql == Get(finalCql)
            raw == Get(o.cql)
            n == Len(raw)
        IN  IF ExpectedClauseCount(o) > 0
            THEN /\ cql[1] = "("
                 /\ Len(cql) >= n + 4
                 /\ SubSeq(cql, 2, Len(cql) - n - 2) = SynthesizedPortion(o)
                 /\ cql[Len(cql) - n - 1] = ") AND ("
                 /\ SubSeq(cql, Len(cql) - n, Len(cql) - 1) = raw
                 /\ cql[Len(cql)] = ")"
            ELSE cql = raw

\* a raw override was combined with synthesized clauses
C18_Witness ==
    /\ QueryBuilt
    /\ RawOverrideGiven(Get(mergedOptions))
    /\ ExpectedClauseCount(Get(mergedOptions)) = 2
    /\ Get(finalCql)[1] = "("
    /\ Len(calls) = 1

(***************************************************************************)
(* Properties of the escaper                                               *)
(***************************************************************************)
\* escapeCqlValue has been applied
Escaped == escapeArg /= Undefined /\ escapeResult /= Undefined

\* C19: for every text, also one holding double quotes or backslashes,
\* wrapping escapeCqlValue(text) in double quotes gives one literal, closed
\* by the final quote only, whose unescaped value is the text; the empty
\* string escapes to the empty string.
C19_EscapeRoundTrip ==
    Escaped =>
        /\ IsLiteralOf(<<"\"">> \o Get(escapeResult) \o <<"\"">>,
                       Get(escapeArg))
        /\ (Get(escapeArg) = <<>> => Get(escapeResult) = <<>>)

\* a text holding a backslash and a double quote was escaped
C19_Witness ==
    /\ Escaped
    /\ Get(escapeArg) = <<"\\", "\"", "n">>
    /\ Len(Get(escapeResult)) = 5

RECURSIVE OthersUnchanged(_, _, _)
\* out is in with every character of `rewritten` replaced by a two-character
\* escape that starts with a backslash, and every other character kept
OthersUnchanged(in, out, rewritten) ==
    IF in = <<>> THEN out = <<>>
    ELSE IF Head(in) \in rewritten
    THEN /\ Len(out) >= 2
         /\ out[1] = "\\"
         /\ OthersUnchanged(Tail(in), SubSeq(out, 3, Len(out)), rewritten)
    ELSE /\ out /= <<>>
         /\ Head(out) = Head(in)
         /\ OthersUnchanged(Tail(in), Tail(out), rewritten)

\* the text holds none of the characters
HoldsNone(text, chars) == \A i \in 1..Len(text) : text[i] \notin chars

\* C20 as stated: escapeCqlValue changes only backslashes and double
\* quotes; every other character, control characters included, is kept, and
\* a text with neither a double quote nor a backslash is returned unchanged.
C20_OnlyQuoteAndBackslashChanged ==
    Escaped =>
        /\ OthersUnchanged(Get(escapeArg), Get(escapeResult), {"\"", "\\"})
        /\ HoldsNone(Get(escapeArg), {"\"", "\\"})
            => Get(escapeResult) = Get(escapeArg)

\* C20: escapeCqlValue applies the escaping of JSON strings: it rewrites
\* backslashes, double quotes and control characters (a newline becomes
\* the two characters \n, a tab \t); every other character is kept, and a
\* text holding none of these is returned unchanged.
C20_JsonEscapingOnly ==
    Escaped =>
        /\ OthersUnchanged(Get(escapeArg), Get(escapeResult),
                           {"\"", "\\", "\n", "\t"})
        /\ HoldsNone(Get(escapeArg), {"\"", "\\", "\n", "\t"})
            => Get(escapeResult) = Get(escapeArg)
        /\ Get(escapeArg) = <<"\n">> => Get(escapeResult) = <<"\\", "n">>
        /\ Get(escapeArg) = <<"\t">> => Get(escapeResult) = <<"\\", "t">>

\* a text with a blank before a newline and a letter was escaped
C20_Witness ==
    /\ Escaped
    /\ Get(escapeArg) = <<" ", "\n", "n">>
    /\ Get(escapeResult) = <<" ", "\\", "n", "n">>

(***************************************************************************)
(* Properties of the category-scoped queries and of the fallback query     *)
(***************************************************************************)
\* the literal the query language uses for a category
CategoryLiteral(t) ==
    CASE t = "spaces" -> "space"
      [] t = "pages" -> "page"
      [] t = "blogPosts" -> "blogpost"
      [] t = "attachments" -> "attachment"
      [] t = "comments" -> "comment"

\* the executor calls of the fan-out have been issued
FannedOut == pc = "awaiting" /\ options /= Undefined

\* the query of the (one) executor call issued for category t
CqlOf(t) == calls[CHOOSE i \in CallsOfSection(t) : TRUE].cql

\* the caller's query without its surrounding whitespace
TrimmedQuery == trim(Get(Get(options).query))

\* C12: for each enabled category the category-scoped query starts with the
\* unconditional clause type = <category literal>, immediately followed by
\* AND text ~ "<escaped query>", the query being the caller's query trimmed
\* and escaped.
C12_TypeClauseThenTextClause ==
    FannedOut =>
        \A t \in Sections :
            EnabledByCaller(t) =>
                /\ Cardinality(CallsOfSection(t)) = 1
                /\ LET cql == CqlOf(t)
                       n == Len(escapeCqlValue(TrimmedQuery))
                   IN  /\ Len(cql) >= n + 6
                       /\ SubSeq(cql, 1, 5) =
                            <<"type = ", CategoryLiteral(t), " AND ",
                              "text ~ ", "\"">>
                       /\ SubSeq(cql, 6, n + 5) = escapeCqlValue(TrimmedQuery)
                       /\ IsLiteralOf(SubSeq(cql, 5, n + 6), TrimmedQuery)

\* every category searched for a query that needs trimming and escaping
C12_Witness ==
    /\ FannedOut
    /\ Get(options).query = Some(<<" ", "a", "\"", " ">>)
    /\ Len(calls) = 5
    /\ \A t \in Sections : EnabledByCaller(t)

\* the options are the defaults but for the query
DefaultOptions ==
    LET o == Get(options)
    IN  /\ o.spaceKey = Undefined
        /\ o.labels = Undefined
        /\ \A t \in Sections : RawToggle(t) = Undefined

\* `field ~ "<escaped trimmed query>"`
QueryClause(prefix) ==
    <<prefix, "\"">> \o escapeCqlValue(TrimmedQuery) \o <<"\"">>

\* C13: a universal search with default options searches titles first: the
\* spaces query contains title ~ "q" and no `OR text`, and each of the page,
\* blogpost, attachment and comment queries contains
\* (title ~ "q" OR text ~ "q").
C13_TitlesSearchedFirst ==
    (FannedOut /\ DefaultOptions) =>
        /\ Contains(CqlOf("spaces"), QueryClause("title ~ "))
        /\ ~Contains(CqlOf("spaces"), <<" OR ", "text ~ ">>)
        /\ \A t \in Sections \ {"spaces"} :
            Contains(CqlOf(t),
                     <<"(">> \o QueryClause("title ~ ") \o <<" OR ">>
                        \o QueryClause("text ~ ") \o <<")">>)

\* the text holds nothing but whitespace
IsBlank(text) == \A i \in 1..Len(text) : text[i] \in {" ", "\n", "\t"}

NotBlank(text) == ~IsBlank(text)

\* the space key the caller supplied, trimmed; a blank one is not supplied
SuppliedSpaceKey ==
    LET key == Get(options).spaceKey
    IN  IF key = Undefined THEN Undefined
        ELSE IF IsBlank(Get(key)) THEN Undefined
        ELSE Some(trim(Get(key)))

\* the non-blank labels the caller supplied, trimmed, in the caller's order
SuppliedLabels ==
    LET labels == Get(options).labels
    IN  IF labels = Undefined THEN <<>>
        ELSE LET kept == SelectSeq(Get(labels), NotBlank)
             IN  [k \in 1..Len(kept) |-> trim(kept[k])]

IsSpaceClause(clause) == clause /= <<>> /\ clause[1] = "space = "

IsLabelClause(clause) == clause /= <<>> /\ clause[1] = "label = "

\* the values of the quoted clauses among clauses, in order
ValuesOf(clauses) == [k \in 1..Len(clauses) |-> ValueOf(clauses[k])]

\* C14: a supplied space key adds the clause space = "<escaped key>" to the
\* query of every enabled category except spaces; supplied labels add one
\* clause label = "<escaped label>" per non-blank label to the queries of
\* pages and blogPosts only.
C14_SpaceAndLabelScoping ==
    FannedOut =>
        \A t \in Sections :
            EnabledByCaller(t) =>
                LET clauses == ClausesOf(CqlOf(t))
                    spaceClauses == SelectSeq(clauses, IsSpaceClause)
                    labelClauses == SelectSeq(clauses, IsLabelClause)
                IN  /\ \A k \in 1..Len(spaceClauses) :
                            IsQuotedClause(spaceClauses[k])
                    /\ \A k \in 1..Len(labelClauses) :
                            IsQuotedClause(labelClauses[k])
                    /\ ValuesOf(spaceClauses) =
                        (IF t /= "spaces" /\ SuppliedSpaceKey /= Undefined
                         THEN <<Get(SuppliedSpaceKey)>> ELSE <<>>)
                    /\ ValuesOf(labelClauses) =
                        (IF t \in {"pages", "blogPosts"}
                         THEN SuppliedLabels ELSE <<>>)

\* every category searched with a space key and two labels, one of them
\* blank
C14_Witness ==
    /\ FannedOut
    /\ Get(options).spaceKey = Some(<<" ", "S", "\"">>)
    /\ Get(options).labels = Some(<< <<" ">>, <<"l", "\"">> >>)
    /\ Len(calls) = 5
    /\ CountAtom(CqlOf("pages"), "label = ") = 1
    /\ CountAtom(CqlOf("comments"), "space = ") = 1

\* C15: the title clause of the fallback query is title ~ "<escaped
\* title>*": the title is escaped before it is embedded, so for every title,
\* also one holding a double quote or a backslash, the quoted literal is
\* closed only by the clause's own final quote.
C15_FallbackTitleEscaped ==
    (listPc \in {"fallback", "done"} /\ calls /= <<>>) =>
        LET cql == calls[1].cql
            read == ReadQuoted(SubSeq(cql, 3, Len(cql)), <<>>)
        IN  /\ Len(cql) >= 3
            /\ cql[1] = "title ~ "
            /\ cql[2] = "\""
            /\ read.closed
            /\ read.value = Get(Get(params).title) \o <<"*">>
            /\ (read.rest = <<>> \/ read.rest[1] = " AND ")

(***************************************************************************)
(* Properties of the error handling of the two search controllers          *)
(***************************************************************************)
\* the status is one of the client-error class (4xx)
ClientErrorClass(status) ==
    IF IsDefined(status) THEN Get(status) \in 400..499 ELSE FALSE

\* the message is the original one with a text put before and after it
CarriesHint(message, original) ==
    /\ Len(message) = Len(original) + 2
    /\ SubSeq(message, 2, Len(message) - 1) = original
    /\ message /= original

\* the errors the executor raised that search saw: the error of the one
\* call that failed while the universal search was awaiting
ObservedErrors ==
    {Get(promises[t].error) : t \in {s \in Sections :
                                        promises[s].error /= Undefined}}

\* the executor error with the status of a thrown error
RaisedAs(thrownError) ==
    CHOOSE e \in StatusErrorInputs : e.statusCode = thrownError.statusCode

\* every executor call was issued once
NoRetry ==
    /\ pc /= "idle" =>
        Len(calls) = Cardinality({t \in Sections : EnabledByCaller(t)})
    /\ contentPc /= "idle" => Len(calls) = 1

\* C21 as stated: when an executor call of search or universal search fails
\* with any client-error-class status, the error propagated carries the
\* original message enriched with a hint and the call is not retried; a
\* failure of any other kind keeps its message.
C21_ClientErrorsEnriched ==
    /\ NoRetry
    /\ \A i \in 1..Len(thrown) :
        LET e == RaisedAs(thrown[i])
        IN  /\ e \in ObservedErrors
            /\ IF ClientErrorClass(e.statusCode)
               THEN CarriesHint(thrown[i].message, e.message)
               ELSE thrown[i].message = e.message
    /\ \A i \in 1..Len(contentThrown) :
        LET e == RaisedAs(contentThrown[i])
        IN  IF ClientErrorClass(e.statusCode)
            THEN CarriesHint(contentThrown[i].message, e.message)
            ELSE contentThrown[i].message = e.message

\* C21: when an executor call of search or universal search fails with
\* status 400, the error propagated carries the original message between a
\* "failed (Status 400 - Bad Request)" prefix and a hint about invalid
\* query syntax, and the call is not retried; a failure with any other
\* status, 404 included, or with no status keeps its message.
C21_BadRequestEnriched ==
    /\ NoRetry
    /\ \A i \in 1..Len(thrown) :
        LET e == RaisedAs(thrown[i])
        IN  /\ e \in ObservedErrors
            /\ IF e.statusCode = Some(400)
               THEN /\ CarriesHint(thrown[i].message, e.message)
                    /\ thrown[i].message[1] = StatusHint[1]
                    /\ thrown[i].message[Len(thrown[i].message)] = CqlHint[1]
               ELSE thrown[i].message = e.message
    /\ \A i \in 1..Len(contentThrown) :
        LET e == RaisedAs(contentThrown[i])
        IN  IF e.statusCode = Some(400)
            THEN CarriesHint(contentThrown[i].message, e.message)
            ELSE contentThrown[i].message = e.message

\* a universal search failed on a rejected query while its other call was
\* still in flight
C21_Witness ==
    /\ Len(thrown) = 1
    /\ thrown[1].statusCode = Some(400)
    /\ Len(thrown[1].message) = 3
    /\ Len(calls) = 3
    /\ \E t \in Sections : promises[t].state = "pending"

(***************************************************************************)
(* Properties of the limit of the universal search                         *)
(***************************************************************************)
\* the limit per category the caller's value stands for
ClampedLimit ==
    LET limit == Get(options).limitPerType
    IN  IF limit = Undefined THEN 5
        ELSE IF Get(limit) < 1 THEN 1
        ELSE IF Get(limit) > 25 THEN 25
        ELSE Get(limit)

\* C22: every executor call issued by universal search carries a limit
\* that is an integer in [1, 25] (the supplied limitPerType clamped to that
\* range, 5 when none is supplied), requests highlight excerpts and
\* excludes archived spaces.
C22_CallLimitClamped ==
    \A i \in 1..Len(calls) :
        /\ calls[i].limit /= Undefined
        /\ Get(calls[i].limit) \in 1..25
        /\ Get(calls[i].limit) = ClampedLimit
        /\ calls[i].excerpt = Some("highlight")
        /\ calls[i].includeArchivedSpaces = Some(FALSE)

\* two calls issued for a limit below the range
C22_Witness ==
    /\ Len(calls) = 2
    /\ options /= Undefined
    /\ Get(options).limitPerType = Some(0)
    /\ calls[1].limit = Some(1)

\* pages is the only category the caller left enabled
OnlyPagesEnabled ==
    \A t \in Sections : EnabledByCaller(t) <=> t = "pages"

\* C23: a universal search with only the pages category enabled returns a
\* map in which pages has at most limitPerCategory entries and the four
\* other keys map to empty sequences, whatever the executor returns.
C23_PagesOnlyWithinLimit ==
    (options /= Undefined /\ resultsByType /= Undefined /\ OnlyPagesEnabled)
    => /\ Len(Get(resultsByType)["pages"]) <= ClampedLimit
       /\ \A t \in Sections \ {"pages"} : Get(resultsByType)[t] = <<>>


(***************************************************************************)
(* The search-all command                                                  *)
(***************************************************************************)
\* the text is the decimal literal of a positive integer
IsPositiveIntegerText(text) ==
    /\ text /= <<>>
    /\ \A i \in 1..Len(text) : IsDigit(text[i])
    /\ DecimalValue(text) > 0

\* the search-all run ended with this error and exit code 1, and the
\* controller was not called
RejectedWith(message) ==
    /\ cliStderr = Some(message)
    /\ exitCode = Some(1)
    /\ cliSearchCall = Undefined

\* C24: search-all rejects every --limit-per-type value that is not a
\* positive integer with the "Must be a positive integer." error and exit
\* code 1, and every value above 25 with an error and exit code 1, and in
\* both cases does not call universal search.
C24_InvalidLimitRejected ==
    cliArg /= Undefined =>
        /\ ~IsPositiveIntegerText(Get(cliArg)) =>
                RejectedWith(NotPositiveMessage)
        /\ (IsPositiveIntegerText(Get(cliArg))
                /\ DecimalValue(Get(cliArg)) > 25) =>
                (cliStderr /= Undefined /\ exitCode = Some(1)
                    /\ cliSearchCall = Undefined)

(***************************************************************************)
(* Failure of one call while others are in flight                          *)
(***************************************************************************)
\* the step in which the call of section t fails while search awaits
FailsWhileAwaited(t) ==
    /\ pc = "awaiting"
    /\ promises[t].state = "pending"
    /\ promises'[t].state = "rejected"

\* the step ends search with the error of section t and touches no other
\* call
SurfacesErrorOf(t) ==
    /\ pc' = "done"
    /\ thrown' = <<searchCatch(Get(promises'[t].error))>>
    /\ returned' = Undefined
    /\ \A u \in Sections \ {t} : promises'[u] = promises[u]

\* search has thrown and nothing it produced changes in this step
OutcomeFrozen ==
    /\ thrown' = thrown
    /\ returned' = returned
    /\ resultsByType' = resultsByType
    /\ calls' = calls
    /\ pc' = pc

\* C26: the step in which a call fails while search awaits ends the search
\* with the error of that call (as the catch block rethrows it), whether or
\* not other calls are still in flight; once search has thrown, the calls
\* still in flight stay issued, and whatever they later do changes neither
\* the error thrown nor anything else search produced.
C26_FirstFailureSurfacesAtOnce ==
    [][(\A t \in Sections : FailsWhileAwaited(t) => SurfacesErrorOf(t))
        /\ ((pc = "done" /\ thrown /= <<>>) => OutcomeFrozen)]_vars

\* search threw the error of one call; another call failed afterwards and
\* a third one is still in flight
C26_Witness ==
    /\ pc = "done"
    /\ Len(thrown) = 1
    /\ \E t \in Sections :
            /\ promises[t].state = "rejected"
            /\ promises[t].error /= Undefined
            /\ thrown[1] = searchCatch(Get(promises[t].error))
    /\ \E t \in Sections :
            /\ promises[t].state = "rejected"
            /\ promises[t].error = Undefined
    /\ \E t \in Sections : promises[t].state = "pending"

(***************************************************************************)
(* The pages list and its fallback                                         *)
(***************************************************************************)
\* list returned the page the fallback produced
ReturnedFromFallback ==
    /\ listReturned /= Undefined
    /\ partialResults /= Undefined
    /\ Len(Get(partialResults).results) > 0

\* C25: the next-page link of every page list returns was issued by the
\* primary pages endpoint: a returned page that carries a next link carries
\* the one of the primary response, never the one of the search endpoint.
C25_NextLinkFromPrimaryEndpoint ==
    (listReturned /= Undefined /\ Get(listReturned).links.next /= Undefined)
        => /\ validatedData /= Undefined
           /\ Get(listReturned).links.next = Get(validatedData).links.next

\* the hits of the fallback response whose content kind is page and that
\* have an id, in hit order
PageHitsOf(response) ==
    SelectSeq(response.results,
              LAMBDA hit :
                /\ hit.content /= Undefined
                /\ Get(hit.content).type = Some("page")
                /\ Get(hit.content).id /= Undefined
                /\ Get(Get(hit.content).id) /= <<>>)

\* the record is the canonical page record of the hit: the hit's id and
\* title, version number 1, no author, and every canonical field present
IsRecordOfHit(record, hit) ==
    /\ DOMAIN record = DOMAIN PrimaryPageRecord
    /\ record.id = Get(Get(hit.content).id)
    /\ record.title = Get(Get(hit.content).title)
    /\ record.version.number = 1
    /\ record.version.authorId = <<>>
    /\ record.authorId = <<>>
    /\ record.parentId /= Undefined
    /\ record.parentType /= Undefined
    /\ record.position /= Undefined

\* C27: a page returned through the fallback holds exactly one record per
\* fallback hit whose content kind is page and that has an id, in hit
\* order; hits of another kind are dropped, and every record has version
\* number 1, an empty author identifier and no undefined canonical field.
C27_FallbackKeepsExactlyPageHits ==
    ReturnedFromFallback =>
        LET kept == PageHitsOf(Get(searchResponse))
            records == Get(listReturned).results
        IN  /\ Len(records) = Len(kept)
            /\ \A k \in 1..Len(records) : IsRecordOfHit(records[k], kept[k])

\* the fallback answered a blog post and the page hit titled "Balance", and
\* list returned exactly the record of the page, with version number 1
C27_Witness ==
    /\ ReturnedFromFallback
    /\ Len(Get(searchResponse).results) = 2
    /\ Get(Get(searchResponse).results[1].content).type = Some("blogpost")
    /\ Len(Get(listReturned).results) = 1
    /\ Get(listReturned).results[1].title = <<"Balance">>
    /\ Get(listReturned).results[1].version.number = 1

RECURSIVE SpaceDisjunction(_)
\* space = "<key>" for every space, in order, with OR in between
SpaceDisjunction(spaces) ==
    LET n == Len(spaces)
        clause == <<"space = ", "\"">> \o spaces[n].key \o <<"\"">>
    IN  IF n = 1 THEN clause
        ELSE SpaceDisjunction(SubSeq(spaces, 1, n - 1)) \o <<" OR ">>
                \o clause

\* the spaces the lookup returned (none when it was not made, failed or
\* has not answered)
LookedUpSpaces ==
    IF spaceLookupResponse = Undefined THEN <<>>
    ELSE Get(spaceLookupResponse).results

\* C28: the fallback query is, joined by AND and in this order: the title
\* wildcard clause; when the single space lookup (made with limit 100 when
\* space ids were supplied) returned at least one space, one parenthesized
\* group with one space = "<key>" clause per returned space joined by OR;
\* and the type = "page" clause, which ends every fallback query.
C28_FallbackQueryShape ==
    /\ Len(spaceLookups) <= 1
    /\ \A i \in 1..Len(spaceLookups) : spaceLookups[i].limit = 100
    /\ Len(calls) <= 1
    /\ Len(calls) = 1 =>
        LET titleClause ==
                <<"title ~ ", "\"">> \o Get(Get(params).title)
                    \o <<"*", "\"">>
            spaceGroup ==
                IF LookedUpSpaces = <<>> THEN <<>>
                ELSE <<" AND ", "(">> \o SpaceDisjunction(LookedUpSpaces)
                        \o <<")">>
        IN  /\ calls[1].cql =
                titleClause \o spaceGroup
                    \o <<" AND ", "type = ", "\"", "page", "\"">>
            /\ Truthy(Get(params).spaceId) <=> Len(spaceLookups) = 1

\* two space ids were supplied, the lookup returned two spaces and the
\* fallback query was issued
C28_Witness ==
    /\ Len(calls) = 1
    /\ Len(spaceLookups) = 1
    /\ Len(LookedUpSpaces) = 2
    /\ CountAtom(calls[1].cql, " OR ") = 1
    /\ CountAtom(calls[1].cql, "space = ") = 2

\* the statuses the request asks for
RequestedStatuses ==
    {<<Get(Get(params).status)[i]>> :
        i \in 1..Len(Get(Get(params).status))}

\* C30: a page returned through the fallback satisfies the filters of the
\* request: with a status filter every record has one of the requested
\* statuses, and with a parent id every record has that parent.
C30_FallbackPreservesFilters ==
    ReturnedFromFallback =>
        \A k \in 1..Len(Get(listReturned).results) :
            LET record == Get(listReturned).results[k]
            IN  /\ Truthy(Get(params).status) =>
                        record.status \in RequestedStatuses
                /\ Truthy(Get(params).parentId) =>
                        record.parentId = Get(params).parentId

(***************************************************************************)
(* Local pagination of the inline comments                                 *)
(***************************************************************************)
\* the filtered and sorted inline comments of the page, as the listing of
\* call i orders them
InlineListOf(i) ==
    convertedComments(Get(commentStore), inlineCalls[i].options)

\* positions start .. start + limit - 1 of the list, counted from 0
PositionsOf(list, start, limit) ==
    LET n == Max(0, Min(limit, Len(list) - start))
    IN  [k \in 1..n |-> list[start + k]]

RECURSIVE PagesUpTo(_)
\* the comments of the first k finished calls, one page after the other
PagesUpTo(k) ==
    IF k = 0 THEN <<>>
    ELSE PagesUpTo(k - 1) \o inlineCalls[k].content.comments

\* the first k finished calls ask for start = 0, limit, 2 * limit, ...
WalksFromStart(k) ==
    \A i \in 1..k :
        StartOf(inlineCalls[i].options) =
            (i - 1) * Get(inlineCalls[i].options.limit)

\* C29: every listPageComments request starts at offset 0; the page of a
\* finished call holds exactly positions start .. start + limit - 1 of the
\* filtered and sorted inline comments; it announces start + limit as the
\* next start exactly when start + returned < total; and calls made for
\* start = 0, limit, 2 * limit, ... up to the first page without such an
\* announcement return the whole list, every comment once.
C29_LocalPagination ==
    /\ \A i \in 1..Len(commentRequests) :
            commentRequests[i].start = 0 /\ commentRequests[i].limit = 250
    /\ \A i \in 1..Len(inlineCalls) :
            LET o == inlineCalls[i].options
                page == inlineCalls[i].content
                list == InlineListOf(i)
            IN  /\ page.comments =
                        PositionsOf(list, StartOf(o), Get(o.limit))
                /\ page.nextStart =
                        (IF StartOf(o) + Len(page.comments) < Len(list)
                         THEN Some(StartOf(o) + Get(o.limit))
                         ELSE Undefined)
    /\ \A k \in 1..Len(inlineCalls) :
            (WalksFromStart(k)
                /\ inlineCalls[k].content.nextStart = Undefined)
                => PagesUpTo(k) = InlineListOf(k)

\* three inline comments listed one per call: three calls for start 0, 1
\* and 2, the first two announcing a next page and the last one none
C29_Witness ==
    /\ Len(inlineCalls) = 3
    /\ Len(commentRequests) = 3
    /\ WalksFromStart(3)
    /\ Len(InlineListOf(3)) = 3
    /\ inlineCalls[1].content.nextStart = Some(1)
    /\ inlineCalls[2].content.nextStart = Some(2)
    /\ inlineCalls[3].content.nextStart = Undefined
    /\ Len(PagesUpTo(3)) = 3

====
